---- MODULE Spec2Model ----
(***************************************************************************)
(* Model of the Piper-hub speech servers:                                  *)
(*   - the chunker of tools/chatterbox_server.py (_split_to_chunks),       *)
(*   - the request pipeline of tools/chatterbox_server.py (speech),        *)
(*   - the sanitizer of tools/chatterbox_server.py (_sanitize_text),       *)
(*   - the design-capability probe of tools/qwen3_tts_server.py,           *)
(*   - the signature-driven dispatch of tools/qwen3_tts_server.py and      *)
(*     src/services/voice/xtts_server.py,                                  *)
(*   - the model loading and the handlers of tools/xtts_server.py.         *)
(* Texts are sequences of one-character strings.                           *)
(***************************************************************************)
EXTENDS Integers, Sequences, FiniteSets, TLC

(***************************************************************************)
(* Bounds of the model                                                     *)
(***************************************************************************)
\* longest input text given to the chunker
MaxLen == 6
\* largest max_chars given to the chunker
MaxL == 3

(***************************************************************************)
(* Characters                                                              *)
(***************************************************************************)
\* one letter, one sentence terminator, one clause mark, two kinds of whitespace
Chars == {"a", ".", ",", " ", "\n"}

\* str.isspace(), the class \s of the regular expressions
IsSpace(c) == c \in {" ", "\n", "\t"}

\* the lookbehind class [\.\!\?] of _sentence_split_re
SentenceEnd == {".", "!", "?"}

\* the lookbehind class [,;:] of the clause split
ClauseEnd == {",", ";", ":"}

RECURSIVE AllTexts(_)
\* every text over Chars of length at most n
AllTexts(n) ==
    IF n = 0 THEN {<<>>}
    ELSE LET shorter == AllTexts(n - 1) IN
         shorter \cup {Append(s, c) : s \in {x \in shorter : Len(x) = n - 1}, c \in Chars}

(***************************************************************************)
(* String helpers used by _split_to_chunks                                 *)
(***************************************************************************)
RECURSIVE lstrip(_)
lstrip(s) ==
    IF s = <<>> THEN s
    ELSE IF IsSpace(Head(s)) THEN lstrip(Tail(s)) ELSE s

RECURSIVE rstrip(_)
rstrip(s) ==
    IF s = <<>> THEN s
    ELSE IF IsSpace(s[Len(s)]) THEN rstrip(SubSeq(s, 1, Len(s) - 1)) ELSE s

\* str.strip()
strip(s) == rstrip(lstrip(s))

RECURSIVE SpaceRunEnd(_, _)
\* last index of the run of whitespace that starts at i (the greedy \s+)
SpaceRunEnd(t, i) ==
    IF i < Len(t) /\ IsSpace(t[i + 1]) THEN SpaceRunEnd(t, i + 1) ELSE i

RECURSIVE NewlineRunEnd(_, _)
\* last index of the run of newlines that starts at i (the greedy \n+)
NewlineRunEnd(t, i) ==
    IF i < Len(t) /\ t[i + 1] = "\n" THEN NewlineRunEnd(t, i + 1) ELSE i

RECURSIVE re_split(_, _, _, _, _, _)
\* re.split of  (?<=[lookbehind])\s+  and, when nlAlt, the alternative  |\n+ :
\* scan from i, the piece under construction starts at start
re_split(t, lookbehind, nlAlt, i, start, acc) ==
    IF i > Len(t) THEN Append(acc, SubSeq(t, start, Len(t)))
    ELSE IF i > 1 /\ t[i - 1] \in lookbehind /\ IsSpace(t[i])
         THEN LET j == SpaceRunEnd(t, i) IN
              re_split(t, lookbehind, nlAlt, j + 1, j + 1,
                       Append(acc, SubSeq(t, start, i - 1)))
    ELSE IF nlAlt /\ t[i] = "\n"
         THEN LET j == NewlineRunEnd(t, i) IN
              re_split(t, lookbehind, nlAlt, j + 1, j + 1,
                       Append(acc, SubSeq(t, start, i - 1)))
    ELSE re_split(t, lookbehind, nlAlt, i + 1, start, acc)

\* _sentence_split_re.split(text)
sentence_split(t) == re_split(t, SentenceEnd, TRUE, 1, 1, <<>>)

\* re.split(r"(?<=[,;:])\s+", p)
clause_split(p) == re_split(p, ClauseEnd, FALSE, 1, 1, <<>>)

RECURSIVE split_words(_, _, _)
\* str.split(): the maximal whitespace-free runs of s, cur is the run being read
split_words(s, cur, acc) ==
    IF s = <<>> THEN (IF cur = <<>> THEN acc ELSE Append(acc, cur))
    ELSE IF IsSpace(Head(s))
         THEN split_words(Tail(s), <<>>, IF cur = <<>> THEN acc ELSE Append(acc, cur))
    ELSE split_words(Tail(s), Append(cur, Head(s)), acc)

RECURSIVE StripNonBlank(_)
\* [p.strip() for p in pieces if p and p.strip()]
StripNonBlank(pieces) ==
    IF pieces = <<>> THEN <<>>
    ELSE LET p == strip(Head(pieces)) IN
         IF p = <<>> THEN StripNonBlank(Tail(pieces))
         ELSE <<p>> \o StripNonBlank(Tail(pieces))

(***************************************************************************)
(* _split_to_chunks                                                        *)
(***************************************************************************)
\* push_buf: append the stripped buffer when it is not blank
push_buf(chunks, buf) ==
    LET b == strip(buf) IN IF b # <<>> THEN Append(chunks, b) ELSE chunks

RECURSIVE WordWrapDropLast(_, _, _, _)
\* the word wrap without its final push_buf(line)
WordWrapDropLast(words, max_chars, line, chunks) ==
    IF words = <<>> THEN chunks
    ELSE LET w == Head(words) IN
         IF Len(line) + Len(w) + 1 <= max_chars
         THEN WordWrapDropLast(Tail(words), max_chars, strip(line \o <<" ">> \o w), chunks)
         ELSE WordWrapDropLast(Tail(words), max_chars, w, push_buf(chunks, line))

RECURSIVE WordWrapNoSeparator(_, _, _, _)
\* the word wrap whose fit test forgets the joining space
WordWrapNoSeparator(words, max_chars, line, chunks) ==
    IF words = <<>> THEN push_buf(chunks, line)
    ELSE LET w == Head(words) IN
         IF Len(line) + Len(w) <= max_chars
         THEN WordWrapNoSeparator(Tail(words), max_chars, strip(line \o <<" ">> \o w), chunks)
         ELSE WordWrapNoSeparator(Tail(words), max_chars, w, push_buf(chunks, line))

RECURSIVE WordWrap(_, _, _, _)
\* the loop over words of a clause longer than max_chars, and the push_buf after it
WordWrap(words, max_chars, line, chunks) ==
    IF words = <<>> THEN push_buf(chunks, line)
    ELSE LET w == Head(words) IN
         IF Len(line) + Len(w) + 1 <= max_chars
         THEN WordWrap(Tail(words), max_chars, strip(line \o <<" ">> \o w), chunks)
         ELSE WordWrap(Tail(words), max_chars, w, push_buf(chunks, line))

RECURSIVE SplitSubparts(_, _, _)
\* the loop over the clauses of a sentence longer than max_chars;
\* st is [chunks, buf], the list built so far and the pending buffer
SplitSubparts(subparts, max_chars, st) ==
    IF subparts = <<>> THEN st
    ELSE LET sp == strip(Head(subparts)) IN
         IF sp = <<>> THEN SplitSubparts(Tail(subparts), max_chars, st)
         ELSE IF Len(sp) <= max_chars
         THEN IF Len(st.buf) + Len(sp) + 1 <= max_chars
              THEN SplitSubparts(Tail(subparts), max_chars,
                                 [st EXCEPT !.buf = strip(st.buf \o <<" ">> \o sp)])
              ELSE SplitSubparts(Tail(subparts), max_chars,
                                 [chunks |-> push_buf(st.chunks, st.buf), buf |-> sp])
         ELSE SplitSubparts(Tail(subparts), max_chars,
                            [st EXCEPT !.chunks =
                                WordWrap(split_words(sp, <<>>, <<>>), max_chars, <<>>, st.chunks)])

RECURSIVE SplitParts(_, _, _)
\* the loop over the sentences
SplitParts(parts, max_chars, st) ==
    IF parts = <<>> THEN st
    ELSE LET p == Head(parts) IN
         IF Len(p) > max_chars
         THEN SplitParts(Tail(parts), max_chars,
                         SplitSubparts(clause_split(p), max_chars, st))
         ELSE IF st.buf = <<>>
         THEN SplitParts(Tail(parts), max_chars, [st EXCEPT !.buf = p])
         ELSE IF Len(st.buf) + Len(p) + 1 <= max_chars
         THEN SplitParts(Tail(parts), max_chars, [st EXCEPT !.buf = st.buf \o <<" ">> \o p])
         ELSE SplitParts(Tail(parts), max_chars,
                         [chunks |-> push_buf(st.chunks, st.buf), buf |-> p])

\* _split_to_chunks(text, max_chars)
_split_to_chunks(text, max_chars) ==
    IF text = <<>> THEN <<>>
    ELSE LET sentences == StripNonBlank(sentence_split(text))
             parts == IF sentences = <<>> THEN <<strip(text)>> ELSE sentences
             st == SplitParts(parts, max_chars, [chunks |-> <<>>, buf |-> <<>>])
         IN  push_buf(st.chunks, st.buf)

(***************************************************************************)
(* _sanitize_text                                                          *)
(* Characters outside ASCII are named: "nbsp" U+00A0, "ellipsis" U+2026,   *)
(* "ldquo" "rdquo" "lsquo" "rsquo" U+201C U+201D U+2018 U+2019, "emdash"   *)
(* U+2014, "endash" U+2013, "zwsp" U+200B, "zwnj" U+200C, "zwj" U+200D,    *)
(* "bom" U+FEFF, "acute" U+0301 (combining), "e_acute" U+00E9, "a_acute"   *)
(* U+00E1.                                                                 *)
(***************************************************************************)
\* the decomposition NFKC applies to one character
nfkc_decompose(c) ==
    CASE c = "nbsp" -> <<" ">>
      [] c = "ellipsis" -> <<".", ".", ".">>
      [] c = "e_acute" -> <<"e", "acute">>
      [] c = "a_acute" -> <<"a", "acute">>
      [] OTHER -> <<c>>

RECURSIVE nfkc_decompose_all(_)
nfkc_decompose_all(t) ==
    IF t = <<>> THEN <<>> ELSE nfkc_decompose(Head(t)) \o nfkc_decompose_all(Tail(t))

RECURSIVE nfkc_compose(_)
\* the canonical composition NFKC applies after decomposing
nfkc_compose(t) ==
    IF Len(t) < 2 THEN t
    ELSE IF t[1] = "e" /\ t[2] = "acute" THEN <<"e_acute">> \o nfkc_compose(SubSeq(t, 3, Len(t)))
    ELSE IF t[1] = "a" /\ t[2] = "acute" THEN <<"a_acute">> \o nfkc_compose(SubSeq(t, 3, Len(t)))
    ELSE <<Head(t)>> \o nfkc_compose(Tail(t))

\* unicodedata.normalize("NFKC", t)
nfkc(t) == nfkc_compose(nfkc_decompose_all(t))

\* the chain of str.replace calls on one character
fold_punctuation(c) ==
    CASE c \in {"ldquo", "rdquo"} -> <<"\"">>
      [] c \in {"lsquo", "rsquo"} -> <<"'">>
      [] c \in {"emdash", "endash"} -> <<"-">>
      [] c = "ellipsis" -> <<".", ".", ".">>
      [] OTHER -> <<c>>

RECURSIVE fold_punctuation_all(_)
fold_punctuation_all(t) ==
    IF t = <<>> THEN <<>> ELSE fold_punctuation(Head(t)) \o fold_punctuation_all(Tail(t))

\* re.sub(r"[\u200B-\u200D\uFEFF]", "", t)
remove_zero_width(t) == SelectSeq(t, LAMBDA c : c \notin {"zwsp", "zwnj", "zwj", "bom"})

RECURSIVE collapse_blanks(_)
\* re.sub(r"[ \t]+", " ", t)
collapse_blanks(t) ==
    IF t = <<>> THEN <<>>
    ELSE IF Head(t) \in {" ", "\t"}
         THEN IF Len(t) >= 2 /\ t[2] \in {" ", "\t"}
              THEN collapse_blanks(Tail(t))
              ELSE <<" ">> \o collapse_blanks(Tail(t))
    ELSE <<Head(t)>> \o collapse_blanks(Tail(t))

RECURSIVE collapse_newlines(_)
\* re.sub(r"\n{3,}", "\n\n", t)
collapse_newlines(t) ==
    IF t = <<>> THEN <<>>
    ELSE IF Len(t) >= 3 /\ t[1] = "\n" /\ t[2] = "\n" /\ t[3] = "\n"
         THEN collapse_newlines(Tail(t))
    ELSE <<Head(t)>> \o collapse_newlines(Tail(t))

\* _sanitize_text(text)
_sanitize_text(t) ==
    strip(collapse_newlines(collapse_blanks(remove_zero_width(fold_punctuation_all(nfkc(t))))))

(***************************************************************************)
(* State                                                                   *)
(***************************************************************************)
VARIABLES
    text,        \* the chunker's input text
    max_chars,   \* the chunker's maximum chunk length
    chunks,      \* the chunker's result
    split_done,  \* whether _split_to_chunks has returned
    text_raw,       \* the sanitizer's input text
    text_clean,     \* the sanitizer's result
    sanitize_done,  \* whether _sanitize_text has returned
    target,    \* adaptive dispatch: the backend operation, "generate_voice_design" or "inference"
    has_op,    \* adaptive dispatch: whether the model has the operation as a callable attribute
    sig,       \* adaptive dispatch: the recorded signature, [known, params: name -> [kind, has_default]]
    creator,   \* adaptive dispatch: "absent" or "object", what creating a prompt object gives
    request,   \* adaptive dispatch: the fields the caller supplied with a value
    outcome,   \* adaptive dispatch: what the dispatch did
    EAGER,            \* xtts: XTTS_EAGER_LOAD, fixed at start-up
    MODEL,            \* xtts: "None" or the loaded model
    LOADING,          \* xtts: the LOADING flag
    XTTS_LOAD_ERROR,  \* xtts: LOAD_ERROR of tools/xtts_server.py, "None" or the recorded error
    load_count,       \* xtts: how many loads have succeeded so far
    xthread,          \* xtts: the local state of the eager-load thread and of each request thread
    DEVICE,               \* chatterbox: "cuda" or "cpu", fixed at start-up
    RETRY_ON_CUDA_ERROR,  \* chatterbox: the retry knob, fixed at start-up
    gap,                  \* chatterbox: samples of silence between chunks, int(sr * GAP_MS / 1000)
    _model,               \* chatterbox: the model handle, "None" until loaded
    _req_lock,            \* chatterbox: the request holding the gate, 0 when free
    speech,               \* chatterbox: the local state of each speech() call
    design_cap,              \* qwen3: what the design model does with generate_voice_design
    qmodel,                  \* qwen3: _model_tts, _model_clone, _model_design by role
    LOAD_ERROR,              \* qwen3: LOAD_ERROR_TTS, LOAD_ERROR_CLONE, LOAD_ERROR_DESIGN by role
    DESIGN_SUPPORTED,        \* qwen3: "None" while unknown, then "True" or "False"
    DESIGN_DISABLED_REASON,  \* qwen3: "None" or the recorded reason
    INFER_LOCK,              \* qwen3: the thread holding INFER_LOCK, 0 when free
    LAST_ERR,                \* qwen3: "None" or the last recorded error
    probe_invocations,       \* qwen3: calls of generate_voice_design made by the probe so far
    _VOICE_DESIGN_GEN_SIG,   \* qwen3: "None" or the signature of generate_voice_design
    probe_signal,            \* qwen3: "None" or what the first probe that ended had received
    VOICE_DESIGN_CACHE,          \* qwen: the descriptions that have a cached prompt object
    _VOICE_DESIGN_CREATOR_NAME,  \* qwen: "None" or the name of the create_* method found
    qthread,                 \* qwen3: the local state of each request thread
    importable,   \* stream cli: whether "from chatterbox_streaming import stream_tts" succeeds
    stream_tts,   \* stream cli: what the generator does, its yields and how it ends
    cli_pc,       \* stream cli: the position of main()
    consumed,     \* stream cli: how many yields the for loop has taken
    stdout,       \* stream cli: the bytes written to sys.stdout.buffer
    exit_code     \* stream cli: the value main() returned, -1 while it runs

chunkVars == <<text, max_chars, chunks, split_done>>
sanitizeVars == <<text_raw, text_clean, sanitize_done>>
cliVars == <<importable, stream_tts, cli_pc, consumed, stdout, exit_code>>
dispatchVars == <<target, has_op, sig, creator, request, outcome>>
xttsVars == <<EAGER, MODEL, LOADING, XTTS_LOAD_ERROR, load_count, xthread>>
speechVars == <<DEVICE, RETRY_ON_CUDA_ERROR, gap, _model, _req_lock, speech>>
promptVars == <<VOICE_DESIGN_CACHE, _VOICE_DESIGN_CREATOR_NAME>>
qwenVars == <<design_cap, qmodel, LOAD_ERROR, DESIGN_SUPPORTED, DESIGN_DISABLED_REASON,
              INFER_LOCK, LAST_ERR, probe_invocations, _VOICE_DESIGN_GEN_SIG, probe_signal,
              VOICE_DESIGN_CACHE, _VOICE_DESIGN_CREATOR_NAME, qthread>>
vars == <<text, max_chars, chunks, split_done, text_raw, text_clean, sanitize_done,
          target, has_op, sig, creator, request, outcome,
          EAGER, MODEL, LOADING, XTTS_LOAD_ERROR, load_count, xthread,
          DEVICE, RETRY_ON_CUDA_ERROR, gap, _model, _req_lock, speech,
          design_cap, qmodel, LOAD_ERROR, DESIGN_SUPPORTED, DESIGN_DISABLED_REASON,
          INFER_LOCK, LAST_ERR, probe_invocations, _VOICE_DESIGN_GEN_SIG, probe_signal,
          VOICE_DESIGN_CACHE, _VOICE_DESIGN_CREATOR_NAME, qthread,
          importable, stream_tts, cli_pc, consumed, stdout, exit_code>>

\* the chunker before any input was given
ChunkIdle == text = <<>> /\ max_chars = 1 /\ chunks = <<>> /\ split_done = FALSE

\* the streaming CLI when it is not part of the run
CliIdle ==
    /\ importable = TRUE
    /\ stream_tts = [yields |-> <<>>, ending |-> "StopIteration"]
    /\ cli_pc = "off"
    /\ consumed = 0
    /\ stdout = <<>>
    /\ exit_code = -1

\* the sanitizer before any input was given
SanitizeIdle == text_raw = <<>> /\ text_clean = <<>> /\ sanitize_done = FALSE

\* _VOICE_DESIGN_GEN_SIG is None: no signature could be recorded
NoSignature == [known |-> FALSE, params |-> <<>>]

\* the dispatch has not run: no call was made, nothing was passed
Pending == [state |-> "pending", kwargs |-> <<>>]

\* the adaptive dispatch before any input was given
DispatchIdle ==
    /\ target = "generate_voice_design"
    /\ has_op = FALSE
    /\ sig = NoSignature
    /\ creator = "absent"
    /\ request = {}
    /\ outcome = Pending

\* number of request threads of the XTTS Flask server that can run together
NumXThreads == 2

\* thread 0 is the eager-load thread started by main(), the others serve requests
XThreads == 0..NumXThreads

XReqThreads == 1..NumXThreads

\* no response yet
NoXResponse == [status |-> 0, loading |-> FALSE, error |-> "None"]

\* a thread that runs nothing
IdleXThread ==
    [pc |-> "idle", kind |-> "None", ok |-> "None", via |-> "None", m |-> "None",
     resp |-> NoXResponse]

\* the module state of tools/xtts_server.py right after import
XttsStart ==
    /\ MODEL = "None"
    /\ LOADING = FALSE
    /\ XTTS_LOAD_ERROR = "None"
    /\ load_count = 0

\* the XTTS server when it is not part of the run
XttsIdle ==
    /\ EAGER = FALSE
    /\ XttsStart
    /\ xthread = [t \in XThreads |-> IdleXThread]

(***************************************************************************)
(* qwen3_tts_server.py: constants and thread-local state                   *)
(***************************************************************************)
\* number of request threads of the qwen3 server that can run together
NumThreads == 2
\* number of /warmup requests that can be in flight together
MaxWarmups == 1

QThreads == 1..NumThreads

\* the three model roles
Roles == {"tts", "clone", "design"}

\* a request thread that is not serving a request
IdleThread ==
    [pc |-> "idle", kind |-> "None", req |-> "None", loading |-> "None",
     wav |-> "None", status |-> 0, design_result |-> "None", reason |-> "None"]

\* the module state right after import
QwenStart ==
    /\ qmodel = [role \in Roles |-> "None"]
    /\ LOAD_ERROR = [role \in Roles |-> "None"]
    /\ DESIGN_SUPPORTED = "None"
    /\ DESIGN_DISABLED_REASON = "None"
    /\ INFER_LOCK = 0
    /\ LAST_ERR = "None"
    /\ probe_invocations = 0
    /\ _VOICE_DESIGN_GEN_SIG = "None"
    /\ probe_signal = "None"
    /\ VOICE_DESIGN_CACHE = {}
    /\ _VOICE_DESIGN_CREATOR_NAME = "None"
    /\ qthread = [t \in QThreads |-> IdleThread]

\* the qwen3 server when it is not part of the run
QwenIdle == design_cap = "ok" /\ QwenStart

(***************************************************************************)
(* chatterbox_server.py: constants and request-local state                 *)
(***************************************************************************)
\* number of speech() calls that can be in flight together
NumReqs == 2
\* CHATTERBOX_CHUNK_CHARS as configured for the model's short texts
CHUNK_CHARS == 3
\* samples of silence when GAP_MS is not zero
GapSamples == 2

\* the serialize flag switched off
SERIALIZE_Off == FALSE

\* CHATTERBOX_SERIALIZE, default "1"
SERIALIZE == TRUE

\* the size below which _sanitize_wav rejects a waveform
MinWavSize == 8

Reqs == 1..NumReqs

\* raw req.input values: empty, blank, blank once sanitized, one chunk, two
\* chunks, three chunks
ReqInputs ==
    { <<>>, <<" ">>, <<"zwsp">>, <<"a">>,
      <<"a", ".", " ", "a">>,
      <<"a", ".", " ", "a", ".", " ", "a", ".">> }

\* req.audio_prompt_path or DEFAULT_PROMPT_WAV: unset, an existing file, a missing file
PromptPaths == {"none", "exists", "missing"}

\* lengths of the waveforms the backend returns
WavLens == {MinWavSize - 1, MinWavSize, MinWavSize + 1}

\* exceptions a backend call raises: one whose message names the device, one that does not
BackendErrors == {"cuda_oom", "backend_error"}

\* what _model.generate does: a waveform of some length, or an exception
GenResults ==
    {[exc |-> "None", len |-> n] : n \in WavLens} \cup {[exc |-> e, len |-> 0] : e \in BackendErrors}

\* a classifier that takes every exception for a device error
_is_cuda_related_error_Any(e) == TRUE

\* _is_cuda_related_error(e): the message contains one of the device keywords
_is_cuda_related_error(e) == e \in {"cuda_oom"}

\* _sanitize_wav raises ValueError for a waveform of fewer than 8 samples
_sanitize_wav_raises(n) == n < MinWavSize

NoResponse == [status |-> 0, audio |-> <<>>, has_audio |-> FALSE, encoder |-> "None"]

\* a speech() call that has not started
IdleReq ==
    [pc |-> "idle", input |-> <<>>, prompt |-> "none", chunks |-> <<>>, i |-> 0,
     wav_parts |-> <<>>, exc |-> "None", response |-> NoResponse, log |-> <<>>,
     blocked |-> FALSE, ahead |-> {}, after_failure |-> FALSE]

\* JSONResponse(status_code=..., content={"error": ...})
JSONResponse(code) == [status |-> code, audio |-> <<>>, has_audio |-> FALSE, encoder |-> "None"]

\* Response(content=audio, media_type="audio/wav"), audio being the bytes that
\* encoder made of the parts
AudioResponse(parts, encoder) ==
    [status |-> 200, audio |-> parts, has_audio |-> TRUE, encoder |-> encoder]

\* an entry of the call log of a request
Event(op, chunk, result) == [op |-> op, chunk |-> chunk, result |-> result]

InitSpeech ==
    /\ ChunkIdle
    /\ CliIdle
    /\ SanitizeIdle
    /\ DispatchIdle
    /\ XttsIdle
    /\ QwenIdle
    /\ DEVICE \in {"cuda", "cpu"}
    /\ RETRY_ON_CUDA_ERROR \in {0, 1}
    /\ gap \in {0, GapSamples}
    /\ _model = "None"
    /\ _req_lock = 0
    /\ speech = [r \in Reqs |-> IdleReq]

(***************************************************************************)
(* chatterbox_server.py: speech()                                          *)
(***************************************************************************)
\* a request reaches speech() and enters "with lock"; blocked tells whether it
\* found the gate held, ahead remembers the requests that were blocked there
\* before it
Arrive(r) ==
    /\ speech[r].pc = "idle"
    /\ speech' = [speech EXCEPT
                    ![r].pc = "lock",
                    ![r].blocked = SERIALIZE /\ _req_lock # 0,
                    ![r].ahead = {w \in Reqs : speech[w].pc = "lock" /\ speech[w].blocked}]
    /\ UNCHANGED <<chunkVars, sanitizeVars, cliVars, dispatchVars, xttsVars, qwenVars, DEVICE, RETRY_ON_CUDA_ERROR, gap, _model, _req_lock>>

\* lock.__enter__(): _req_lock when SERIALIZE, the no-op lock otherwise; the
\* request stops waiting, for itself and for those that arrived behind it
Acquire(r) ==
    /\ speech[r].pc = "lock"
    /\ SERIALIZE => _req_lock = 0
    /\ _req_lock' = IF SERIALIZE THEN r ELSE _req_lock
    /\ speech' = [q \in Reqs |->
                    IF q = r
                    THEN [speech[r] EXCEPT !.pc = "check", !.blocked = FALSE, !.ahead = {}]
                    ELSE [speech[q] EXCEPT !.ahead = @ \ {r}]]
    /\ UNCHANGED <<chunkVars, sanitizeVars, cliVars, dispatchVars, xttsVars, qwenVars, DEVICE, RETRY_ON_CUDA_ERROR, gap, _model>>

\* an input check that forgets the strip()
CheckInput_NoStrip(r) ==
    /\ speech[r].pc = "check"
    /\ \E inp \in ReqInputs, pr \in PromptPaths :
          speech' = [speech EXCEPT ![r] =
             IF inp = <<>>
             THEN [@ EXCEPT !.pc = "exit", !.input = inp, !.prompt = pr,
                            !.response = JSONResponse(400)]
             ELSE [@ EXCEPT !.pc = "model", !.input = inp, !.prompt = pr]]
    /\ UNCHANGED <<chunkVars, sanitizeVars, cliVars, dispatchVars, xttsVars, qwenVars, DEVICE, RETRY_ON_CUDA_ERROR, gap, _model, _req_lock>>

\* the body of the request is read: text_raw = (req.input or "").strip(); 400 when it is empty
CheckInput(r) ==
    /\ speech[r].pc = "check"
    /\ \E inp \in ReqInputs, pr \in PromptPaths :
          speech' = [speech EXCEPT ![r] =
             IF strip(inp) = <<>>
             THEN [@ EXCEPT !.pc = "exit", !.input = inp, !.prompt = pr,
                            !.response = JSONResponse(400)]
             ELSE [@ EXCEPT !.pc = "model", !.input = inp, !.prompt = pr]]
    /\ UNCHANGED <<chunkVars, sanitizeVars, cliVars, dispatchVars, xttsVars, qwenVars, DEVICE, RETRY_ON_CUDA_ERROR, gap, _model, _req_lock>>

\* if _model is None: _model = ChatterboxTTS.from_pretrained(DEVICE)
LoadModel(r) ==
    /\ speech[r].pc = "model"
    /\ IF _model # "None"
       THEN /\ speech' = [speech EXCEPT ![r].pc = "prepare"]
            /\ UNCHANGED _model
       ELSE \E res \in {"None"} \cup BackendErrors :
            IF res = "None"
            THEN /\ _model' = "loaded"
                 /\ speech' = [speech EXCEPT ![r].pc = "prepare",
                                             ![r].log = Append(@, Event("load", 0, res))]
            ELSE /\ UNCHANGED _model
                 /\ speech' = [speech EXCEPT ![r].pc = "except", ![r].exc = res,
                                             ![r].log = Append(@, Event("load", 0, res))]
    /\ UNCHANGED <<chunkVars, sanitizeVars, cliVars, dispatchVars, xttsVars, qwenVars, DEVICE, RETRY_ON_CUDA_ERROR, gap, _req_lock>>

\* the prompt path check, _sanitize_text, _split_to_chunks and the set-up of the loop
Prepare(r) ==
    /\ speech[r].pc = "prepare"
    /\ LET st == speech[r]
           cs == _split_to_chunks(_sanitize_text(strip(st.input)), CHUNK_CHARS)
       IN  speech' = [speech EXCEPT ![r] =
              IF st.prompt = "missing"
              THEN [st EXCEPT !.pc = "exit", !.response = JSONResponse(400)]
              ELSE IF cs = <<>>
              THEN [st EXCEPT !.pc = "exit", !.response = JSONResponse(400)]
              ELSE [st EXCEPT !.pc = "gen", !.chunks = cs, !.i = 1, !.wav_parts = <<>>]]
    /\ UNCHANGED <<chunkVars, sanitizeVars, cliVars, dispatchVars, xttsVars, qwenVars, DEVICE, RETRY_ON_CUDA_ERROR, gap, _model, _req_lock>>

\* an exit test that leaves the loop one chunk early
LastChunk_OneEarly(i, cs) == i + 1 >= Len(cs)

\* the exit test of the loop over the chunks: chunk i was the last one
LastChunk(i, cs) == i = Len(cs)

\* appends that put the silence after every chunk, the last one included
AfterGenerate_TrailingSilence(st, n, ev) ==
    IF _sanitize_wav_raises(n)
    THEN [st EXCEPT !.pc = "except", !.exc = "wav_too_short", !.log = Append(@, ev)]
    ELSE LET seg == [kind |-> "chunk", idx |-> st.i, len |-> n]
             silence == [kind |-> "silence", idx |-> 0, len |-> gap]
             parts == IF gap > 0
                      THEN st.wav_parts \o <<seg, silence>>
                      ELSE Append(st.wav_parts, seg)
         IN  [st EXCEPT !.wav_parts = parts,
                        !.i = @ + 1,
                        !.pc = IF LastChunk(st.i, st.chunks) THEN "encode" ELSE "gen",
                        !.log = Append(@, ev)]

\* appends that put each new segment in front of the earlier ones
AfterGenerate_Prepend(st, n, ev) ==
    IF _sanitize_wav_raises(n)
    THEN [st EXCEPT !.pc = "except", !.exc = "wav_too_short", !.log = Append(@, ev)]
    ELSE LET seg == [kind |-> "chunk", idx |-> st.i, len |-> n]
             silence == [kind |-> "silence", idx |-> 0, len |-> gap]
             parts == IF gap > 0 /\ ~LastChunk(st.i, st.chunks)
                      THEN <<seg, silence>> \o st.wav_parts
                      ELSE <<seg>> \o st.wav_parts
         IN  [st EXCEPT !.wav_parts = parts,
                        !.i = @ + 1,
                        !.pc = IF LastChunk(st.i, st.chunks) THEN "encode" ELSE "gen",
                        !.log = Append(@, ev)]

\* after gen_once returned a waveform of n samples: _sanitize_wav, the two
\* appends, and the next iteration or the end of the loop
AfterGenerate(st, n, ev) ==
    IF _sanitize_wav_raises(n)
    THEN [st EXCEPT !.pc = "except", !.exc = "wav_too_short", !.log = Append(@, ev)]
    ELSE LET seg == [kind |-> "chunk", idx |-> st.i, len |-> n]
             silence == [kind |-> "silence", idx |-> 0, len |-> gap]
             parts == IF gap > 0 /\ ~LastChunk(st.i, st.chunks)
                      THEN st.wav_parts \o <<seg, silence>>
                      ELSE Append(st.wav_parts, seg)
         IN  [st EXCEPT !.wav_parts = parts,
                        !.i = @ + 1,
                        !.pc = IF LastChunk(st.i, st.chunks) THEN "encode" ELSE "gen",
                        !.log = Append(@, ev)]

\* whether the except clause of the loop retries: RETRY_ON_CUDA_ERROR and _is_cuda_related_error(e1)
RetryAllowed(e) == RETRY_ON_CUDA_ERROR # 0 /\ _is_cuda_related_error(e)

\* wav = gen_once(ch), the first call for chunk i
GenOnce(r) ==
    /\ speech[r].pc = "gen"
    /\ \E res \in GenResults :
          LET st == speech[r]
              ev == Event("generate", st.i, res.exc)
          IN  speech' = [speech EXCEPT ![r] =
                 IF res.exc = "None" THEN AfterGenerate(st, res.len, ev)
                 ELSE IF RetryAllowed(res.exc)
                 THEN [st EXCEPT !.pc = "recover", !.log = Append(@, ev)]
                 ELSE [st EXCEPT !.pc = "except", !.exc = res.exc, !.log = Append(@, ev)]]
    /\ UNCHANGED <<chunkVars, sanitizeVars, cliVars, dispatchVars, xttsVars, qwenVars, DEVICE, RETRY_ON_CUDA_ERROR, gap, _model, _req_lock>>

\* an except clause of the loop that resets the device state twice
Recover_Twice(r) ==
    /\ speech[r].pc = "recover"
    /\ LET ev == Event("recover", speech[r].i, IF DEVICE = "cuda" THEN "flushed" ELSE "skipped")
       IN speech' = [speech EXCEPT ![r].pc = "retry", ![r].log = @ \o <<ev, ev>>]
    /\ UNCHANGED <<chunkVars, sanitizeVars, cliVars, dispatchVars, xttsVars, qwenVars, DEVICE, RETRY_ON_CUDA_ERROR, gap, _model, _req_lock>>

\* _cuda_recover() in the except clause of the loop
Recover(r) ==
    /\ speech[r].pc = "recover"
    /\ speech' = [speech EXCEPT ![r].pc = "retry",
                                ![r].log = Append(@, Event("recover", speech[r].i,
                                                           IF DEVICE = "cuda" THEN "flushed" ELSE "skipped"))]
    /\ UNCHANGED <<chunkVars, sanitizeVars, cliVars, dispatchVars, xttsVars, qwenVars, DEVICE, RETRY_ON_CUDA_ERROR, gap, _model, _req_lock>>

\* a retry that goes back to recovery when it fails on a device error
GenRetry_Again(r) ==
    /\ speech[r].pc = "retry"
    /\ \E res \in GenResults :
          LET st == speech[r]
              ev == Event("generate", st.i, res.exc)
          IN  speech' = [speech EXCEPT ![r] =
                 IF res.exc = "None" THEN AfterGenerate(st, res.len, ev)
                 ELSE IF RetryAllowed(res.exc)
                 THEN [st EXCEPT !.pc = "recover", !.log = Append(@, ev)]
                 ELSE [st EXCEPT !.pc = "except", !.exc = res.exc, !.log = Append(@, ev)]]
    /\ UNCHANGED <<chunkVars, sanitizeVars, cliVars, dispatchVars, xttsVars, qwenVars, DEVICE, RETRY_ON_CUDA_ERROR, gap, _model, _req_lock>>

\* wav = gen_once(ch), the retry inside the except clause
GenRetry(r) ==
    /\ speech[r].pc = "retry"
    /\ \E res \in GenResults :
          LET st == speech[r]
              ev == Event("generate", st.i, res.exc)
          IN  speech' = [speech EXCEPT ![r] =
                 IF res.exc = "None" THEN AfterGenerate(st, res.len, ev)
                 ELSE [st EXCEPT !.pc = "except", !.exc = res.exc, !.log = Append(@, ev)]]
    /\ UNCHANGED <<chunkVars, sanitizeVars, cliVars, dispatchVars, xttsVars, qwenVars, DEVICE, RETRY_ON_CUDA_ERROR, gap, _model, _req_lock>>

RECURSIVE np_concatenate(_)
\* np.concatenate(wav_parts, axis=0): the samples of the parts one after the
\* other; a sample is written as the chunk number it belongs to, 0 for silence
np_concatenate(parts) ==
    IF parts = <<>> THEN <<>>
    ELSE [k \in 1..Head(parts).len |-> Head(parts).idx] \o np_concatenate(Tail(parts))

\* an encoding step whose except clause gives up instead of calling the fallback
Encode_NoFallback(r) ==
    /\ speech[r].pc = "encode"
    /\ \E primary \in {"None", "encode_error"} :
          LET st == speech[r] IN
          speech' = [speech EXCEPT ![r] =
             IF primary = "None"
             THEN [st EXCEPT !.pc = "exit", !.response = AudioResponse(st.wav_parts, "wave"),
                             !.log = Append(@, Event("encode_wave", 0, primary))]
             ELSE [st EXCEPT !.pc = "except", !.exc = primary,
                             !.log = Append(@, Event("encode_wave", 0, primary))]]
    /\ UNCHANGED <<chunkVars, sanitizeVars, cliVars, dispatchVars, xttsVars, qwenVars, DEVICE, RETRY_ON_CUDA_ERROR, gap, _model, _req_lock>>

\* np.concatenate, _wav_bytes_wave and on failure _wav_bytes_soundfile
Encode(r) ==
    /\ speech[r].pc = "encode"
    /\ \E primary \in {"None", "encode_error"}, fallback \in {"None", "encode_error"} :
          LET st == speech[r] IN
          speech' = [speech EXCEPT ![r] =
             IF primary = "None"
             THEN [st EXCEPT !.pc = "exit", !.response = AudioResponse(st.wav_parts, "wave"),
                             !.log = Append(@, Event("encode_wave", 0, primary))]
             ELSE IF fallback = "None"
             THEN [st EXCEPT !.pc = "exit", !.response = AudioResponse(st.wav_parts, "soundfile"),
                             !.log = @ \o <<Event("encode_wave", 0, primary),
                                            Event("encode_soundfile", 0, fallback)>>]
             ELSE [st EXCEPT !.pc = "except", !.exc = fallback,
                             !.log = @ \o <<Event("encode_wave", 0, primary),
                                            Event("encode_soundfile", 0, fallback)>>]]
    /\ UNCHANGED <<chunkVars, sanitizeVars, cliVars, dispatchVars, xttsVars, qwenVars, DEVICE, RETRY_ON_CUDA_ERROR, gap, _model, _req_lock>>

\* an except clause that answers with the 500 without resetting the device state
Except_NoRecover(r) ==
    /\ speech[r].pc = "except"
    /\ speech' = [speech EXCEPT ![r].pc = "exit", ![r].response = JSONResponse(500)]
    /\ UNCHANGED <<chunkVars, sanitizeVars, cliVars, dispatchVars, xttsVars, qwenVars, DEVICE, RETRY_ON_CUDA_ERROR, gap, _model, _req_lock>>

\* the "except Exception as e" clause of speech(): recovery on a device error, then the 500
Except(r) ==
    /\ speech[r].pc = "except"
    /\ LET st == speech[r] IN
       speech' = [speech EXCEPT ![r] =
          [st EXCEPT !.pc = "exit",
                     !.response = JSONResponse(500),
                     !.log = IF DEVICE = "cuda" /\ _is_cuda_related_error(st.exc)
                             THEN Append(@, Event("recover", 0, "flushed"))
                             ELSE @]]
    /\ UNCHANGED <<chunkVars, sanitizeVars, cliVars, dispatchVars, xttsVars, qwenVars, DEVICE, RETRY_ON_CUDA_ERROR, gap, _model, _req_lock>>

\* the request ended with the 500 of a generate call that raised
SynthesisFailed(st) ==
    /\ st.response.status = 500
    /\ st.exc \in BackendErrors
    /\ \E k \in DOMAIN st.log : st.log[k].op = "generate" /\ st.log[k].result = st.exc

\* a return that leaves the gate held when the response is not a success
Release_OnSuccessOnly(r) ==
    /\ speech[r].pc = "exit"
    /\ _req_lock' = IF SERIALIZE /\ speech[r].response.status = 200 THEN 0 ELSE _req_lock
    /\ speech' = [q \in Reqs |->
                    IF q = r THEN IdleReq
                    ELSE IF speech[q].pc = "lock"
                    THEN [speech[q] EXCEPT !.after_failure = SynthesisFailed(speech[r])]
                    ELSE speech[q]]
    /\ UNCHANGED <<chunkVars, sanitizeVars, cliVars, dispatchVars, xttsVars, qwenVars, DEVICE, RETRY_ON_CUDA_ERROR, gap, _model>>

\* lock.__exit__() and the return of the response; a request waiting at the
\* gate remembers whether the request that returned had failed in synthesis
Release(r) ==
    /\ speech[r].pc = "exit"
    /\ _req_lock' = IF SERIALIZE THEN 0 ELSE _req_lock
    /\ speech' = [q \in Reqs |->
                    IF q = r THEN IdleReq
                    ELSE IF speech[q].pc = "lock"
                    THEN [speech[q] EXCEPT !.after_failure = SynthesisFailed(speech[r])]
                    ELSE speech[q]]
    /\ UNCHANGED <<chunkVars, sanitizeVars, cliVars, dispatchVars, xttsVars, qwenVars, DEVICE, RETRY_ON_CUDA_ERROR, gap, _model>>

NextSpeech ==
    \E r \in Reqs :
        \/ Arrive(r)
        \/ Acquire(r)
        \/ CheckInput(r)
        \/ LoadModel(r)
        \/ Prepare(r)
        \/ GenOnce(r)
        \/ Recover(r)
        \/ GenRetry(r)
        \/ Encode(r)
        \/ Except(r)
        \/ Release(r)

SpecSpeech == InitSpeech /\ [][NextSpeech]_vars

\* the chatterbox server before start-up
SpeechIdle ==
    /\ DEVICE = "cpu"
    /\ RETRY_ON_CUDA_ERROR = 1
    /\ gap = 0
    /\ _model = "None"
    /\ _req_lock = 0
    /\ speech = [r \in Reqs |-> IdleReq]

(***************************************************************************)
(* The chunker applied to one input                                        *)
(***************************************************************************)
InitChunk ==
    /\ text \in AllTexts(MaxLen)
    /\ max_chars \in 1..MaxL
    /\ chunks = <<>>
    /\ split_done = FALSE
    /\ CliIdle
    /\ SanitizeIdle
    /\ DispatchIdle
    /\ XttsIdle
    /\ SpeechIdle
    /\ QwenIdle

\* chunks = _split_to_chunks(text, max_chars)
SplitToChunks ==
    /\ ~split_done
    /\ chunks' = _split_to_chunks(text, max_chars)
    /\ split_done' = TRUE
    /\ UNCHANGED <<text, max_chars, sanitizeVars, cliVars, dispatchVars, xttsVars, speechVars, qwenVars>>

NextChunk == SplitToChunks

SpecChunk == InitChunk /\ [][NextChunk]_vars

(***************************************************************************)
(* The sanitizer applied to one input                                      *)
(***************************************************************************)
\* longest input text given to the sanitizer
MaxSanLen == 4

\* code points given to the sanitizer: two letters, the combining acute accent,
\* a zero-width space, blank, tab and newline, the control character U+0007,
\* the ellipsis and a curly quote
SanChars == {"e", "acute", "zwsp", " ", "\t", "\n", "bel", "ellipsis", "rdquo"}

RECURSIVE TextsOver(_, _)
\* every text over the alphabet of length at most n
TextsOver(alphabet, n) ==
    IF n = 0 THEN {<<>>}
    ELSE LET shorter == TextsOver(alphabet, n - 1) IN
         shorter \cup {Append(x, c) : x \in {y \in shorter : Len(y) = n - 1}, c \in alphabet}

InitSanitize ==
    /\ text_raw \in TextsOver(SanChars, MaxSanLen)
    /\ text_clean = <<>>
    /\ sanitize_done = FALSE
    /\ ChunkIdle
    /\ CliIdle
    /\ DispatchIdle
    /\ XttsIdle
    /\ SpeechIdle
    /\ QwenIdle

\* text = _sanitize_text(text_raw)
SanitizeText ==
    /\ ~sanitize_done
    /\ text_clean' = _sanitize_text(text_raw)
    /\ sanitize_done' = TRUE
    /\ UNCHANGED <<text_raw, chunkVars, cliVars, dispatchVars, xttsVars, speechVars, qwenVars>>

NextSanitize == SanitizeText

SpecSanitize == InitSanitize /\ [][NextSanitize]_vars

(***************************************************************************)
(* The adaptive dispatch: call_generate_voice_design of qwen3_tts_server.py *)
(* and XTTSEngine.synth of src/services/voice/xtts_server.py               *)
(***************************************************************************)
\* largest number of parameters of a backend operation
MaxParams == 3

\* what a parameter of generate_voice_design can be: positional-only,
\* positional-or-keyword or keyword-only, each with or without default, or **kwargs
ParamSpecs ==
    {[kind |-> k, has_default |-> b] :
        k \in {"POSITIONAL_ONLY", "POSITIONAL_OR_KEYWORD", "KEYWORD_ONLY"}, b \in BOOLEAN}
    \cup {[kind |-> "VAR_KEYWORD", has_default |-> FALSE]}

\* parameter names of generate_voice_design: the ones the dispatch knows and one it does not
DesignNames ==
    {"text", "language", "description", "instruct", "emotion", "prompt", "design_prompt", "speaker"}

\* parameter names of Xtts.inference: the ones synth knows and one it does not
InferenceNames == {"text", "language", "speaker_wav", "temperature", "speed", "gpt_cond_latent"}

\* the signatures with at most n parameters over the names, each parameter one of the specs
Signatures(names, specs, n) ==
    {[known |-> TRUE, params |-> ps] :
        ps \in UNION {[S -> specs] : S \in {T \in SUBSET names : Cardinality(T) <= n}}}

\* the arguments probe_design_support and speak pass to call_generate_voice_design
DesignRequest == {"text", "language", "base_desc", "emotion_instruct"}

\* the fields of a /speak body of the XTTS server that synth can receive:
\* a field is in the request when it has a value (not None, not "")
SynthFields == {"text", "language", "speaker_wav", "temperature", "speed", "seed"}

\* the parameter names that take a prompt object, in the order they are tried
PromptNames == <<"prompt", "voice_design_prompt", "design_prompt">>

\* the first name of PromptNames in params, "None" when there is none
PromptParam(params) ==
    IF PromptNames[1] \in params THEN PromptNames[1]
    ELSE IF PromptNames[2] \in params THEN PromptNames[2]
    ELSE IF PromptNames[3] \in params THEN PromptNames[3]
    ELSE "None"

\* the caller's argument a parameter of generate_voice_design is filled from;
\* the prompt object is made from base_desc
DesignSource(name) ==
    CASE name = "text" -> "text"
      [] name = "language" -> "language"
      [] name = "description" -> "base_desc"
      [] name \in {"instruct", "emotion"} -> "emotion_instruct"
      [] OTHER -> "base_desc"

\* get_or_create_voice_design_prompt(model, base_desc): None without a
\* description or without a creator, otherwise the prompt object
get_or_create_voice_design_prompt(req, cr) ==
    IF "base_desc" \notin req THEN "None"
    ELSE IF cr = "absent" THEN "None"
    ELSE "prompt_obj"

\* the binding of model.op(**kwargs) by the interpreter: every parameter
\* without default that is not * or ** needs an argument, and an argument
\* given by keyword needs a parameter that takes keywords, or a ** parameter
Binds(s, keys) ==
    LET has_var_kw == \E n \in DOMAIN s : s[n].kind = "VAR_KEYWORD" IN
    /\ \A n \in DOMAIN s :
          (s[n].kind \in {"POSITIONAL_ONLY", "POSITIONAL_OR_KEYWORD", "KEYWORD_ONLY"}
           /\ ~s[n].has_default)
          => (n \in keys /\ s[n].kind # "POSITIONAL_ONLY")
    /\ \A k \in keys :
          \/ k \in DOMAIN s /\ s[k].kind \in {"POSITIONAL_OR_KEYWORD", "KEYWORD_ONLY"}
          \/ has_var_kw

\* model.op(**kwargs): the operation runs, or the binding fails with TypeError
Call(s, kwargs) ==
    [state |-> IF Binds(s, DOMAIN kwargs) THEN "called" ELSE "type_error", kwargs |-> kwargs]

\* the dispatch returned None without a call
ReturnedNone == [state |-> "none", kwargs |-> <<>>]

\* the dispatch raised before a call
Raised == [state |-> "raised", kwargs |-> <<>>]

\* call_generate_voice_design(model, text=, language=, base_desc=, emotion_instruct=)
\* with the recorded signature s
call_generate_voice_design(exists, s, req, cr) ==
    IF ~exists THEN ReturnedNone
    ELSE IF ~s.known THEN ReturnedNone
    ELSE LET params == DOMAIN s.params
             plain == {"text", "language", "description", "instruct", "emotion"} \cap params
             p == PromptParam(params)
             keys == IF p = "None" THEN plain ELSE plain \cup {p}
             kwargs == [k \in keys |-> DesignSource(k)]
             required == {n \in params :
                             /\ ~s.params[n].has_default
                             /\ s.params[n].kind \in {"POSITIONAL_OR_KEYWORD", "KEYWORD_ONLY"}}
             missing == required \ keys
         IN  IF p # "None" /\ get_or_create_voice_design_prompt(req, cr) = "None"
             THEN ReturnedNone
             ELSE IF missing # {} THEN ReturnedNone
             ELSE Call(s.params, kwargs)

\* the fields synth puts in base: text, language, speaker_wav and the generation controls
BaseKeys ==
    {"text", "language", "speaker_wav", "temperature", "top_k", "top_p", "length_penalty",
     "repetition_penalty", "speed"}

\* a synth that passes every field of base that has a value
synth_PassAll(s, req) ==
    IF "text" \notin req \/ "speaker_wav" \notin req THEN Raised
    ELSE Call(s.params, [k \in (BaseKeys \cap req) |-> k])

\* XTTSEngine.synth(text, language, speaker_wav, **gen) up to self.model.inference(**kwargs)
synth(s, req) ==
    IF "text" \notin req \/ "speaker_wav" \notin req THEN Raised
    ELSE Call(s.params, [k \in (BaseKeys \cap req \cap DOMAIN s.params) |-> k])

InitDispatch ==
    /\ target \in {"generate_voice_design", "inference"}
    /\ IF target = "generate_voice_design"
       THEN /\ has_op \in BOOLEAN
            /\ sig \in IF has_op
                        THEN {NoSignature} \cup Signatures(DesignNames, ParamSpecs, MaxParams)
                        ELSE {NoSignature}
            /\ creator \in IF PromptParam(DOMAIN sig.params) # "None"
                            THEN {"absent", "object"} ELSE {"absent"}
            /\ request = DesignRequest
       ELSE /\ has_op = TRUE
            /\ sig \in Signatures(InferenceNames,
                                   {[kind |-> "POSITIONAL_OR_KEYWORD", has_default |-> TRUE]},
                                   MaxParams)
            /\ creator = "absent"
            /\ request \in {R \in SUBSET SynthFields : "language" \in R}
    /\ outcome = Pending
    /\ ChunkIdle
    /\ CliIdle
    /\ SanitizeIdle
    /\ XttsIdle
    /\ SpeechIdle
    /\ QwenIdle

\* out = call_generate_voice_design(...)
CallGenerateVoiceDesign ==
    /\ target = "generate_voice_design"
    /\ outcome = Pending
    /\ outcome' = call_generate_voice_design(has_op, sig, request, creator)
    /\ UNCHANGED <<target, has_op, sig, creator, request, chunkVars, sanitizeVars, cliVars, xttsVars,
                   speechVars, qwenVars>>

\* wav_bytes = self.engine.synth(text, language, speaker_wav, **gen)
Synth ==
    /\ target = "inference"
    /\ outcome = Pending
    /\ outcome' = synth(sig, request)
    /\ UNCHANGED <<target, has_op, sig, creator, request, chunkVars, sanitizeVars, cliVars, xttsVars,
                   speechVars, qwenVars>>

NextDispatch == CallGenerateVoiceDesign \/ Synth

SpecDispatch == InitDispatch /\ [][NextDispatch]_vars

(***************************************************************************)
(* qwen3_tts_server.py: load_tts, load_clone, load_design                  *)
(***************************************************************************)
\* the places where a load function is called, and the role each one loads
LoadSites == {"w_tts", "w_clone", "w_design", "probe_load", "s_clone_load", "s_design_load", "s_tts_load"}

LoadRole(pc) ==
    CASE pc \in {"w_tts", "s_tts_load"} -> "tts"
      [] pc \in {"w_clone", "s_clone_load"} -> "clone"
      [] pc \in {"w_design", "probe_load", "s_design_load"} -> "design"

\* where the caller continues when the load function returns the model; in
\* speak() the backend call on the returned model starts right away
AfterLoad(pc) ==
    CASE pc = "w_tts" -> "w_clone"
      [] pc = "w_clone" -> "w_design"
      [] pc = "w_design" -> "probe_check"
      [] pc = "probe_load" -> "probe_call"
      [] pc = "s_clone_load" -> "s_clone_call"
      [] pc = "s_design_load" -> "s_design_calling"
      [] pc = "s_tts_load" -> "s_tts_calling"

\* where the caller of probe_design_support() continues with the returned value
AfterProbe(th, ret) ==
    IF th.kind = "warmup" THEN [th EXCEPT !.pc = "q_exit", !.status = 200, !.loading = "None"]
    ELSE [th EXCEPT !.pc = IF ret = "True" THEN "s_design_load" ELSE "s_tts_load",
                    !.loading = "None"]

\* the thread after a load function raised at its call site: probe_design_support
\* catches it and returns False, warmup answers 500, speak goes to its except clause
AfterLoadRaise(th) ==
    IF th.pc = "probe_load" THEN AfterProbe(th, "False")
    ELSE IF th.kind = "warmup" THEN [th EXCEPT !.pc = "q_exit", !.status = 500, !.loading = "None"]
    ELSE [th EXCEPT !.pc = "s_except", !.loading = "None"]

\* what the first probe that ended had received, once out is received
FirstSignal(out) == IF probe_signal = "None" THEN out ELSE probe_signal

\* the effect of a raising load on the design state and on INFER_LOCK
LoadRaiseEffects(t) ==
    /\ IF qthread[t].pc = "probe_load"
       THEN /\ DESIGN_SUPPORTED' = "False"
            /\ DESIGN_DISABLED_REASON' = "load_failed"
            /\ probe_signal' = FirstSignal("load_failed")
       ELSE UNCHANGED <<DESIGN_SUPPORTED, DESIGN_DISABLED_REASON, probe_signal>>
    /\ INFER_LOCK' = IF qthread[t].kind = "speak" /\ qthread[t].pc # "probe_load" THEN 0 ELSE INFER_LOCK

\* the head of load_tts / load_clone / load_design: return the loaded model,
\* raise the recorded load error, or enter _load
LoadStart(t) ==
    /\ qthread[t].pc \in LoadSites
    /\ qthread[t].loading = "None"
    /\ LET role == LoadRole(qthread[t].pc) IN
       IF qmodel[role] # "None"
       THEN /\ qthread' = [qthread EXCEPT ![t].pc = AfterLoad(@)]
            /\ UNCHANGED <<DESIGN_SUPPORTED, DESIGN_DISABLED_REASON, INFER_LOCK, probe_signal>>
       ELSE IF LOAD_ERROR[role] # "None"
       THEN /\ qthread' = [qthread EXCEPT ![t] = AfterLoadRaise(@)]
            /\ LoadRaiseEffects(t)
       ELSE /\ qthread' = [qthread EXCEPT ![t].loading = role]
            /\ UNCHANGED <<DESIGN_SUPPORTED, DESIGN_DISABLED_REASON, INFER_LOCK, probe_signal>>
    /\ UNCHANGED <<chunkVars, sanitizeVars, cliVars, dispatchVars, xttsVars, speechVars, promptVars, _VOICE_DESIGN_GEN_SIG, design_cap, qmodel, LOAD_ERROR, LAST_ERR,
                   probe_invocations>>

\* _load returns or raises: the handle is stored, or the error is recorded and re-raised
LoadFinish(t) ==
    /\ qthread[t].loading # "None"
    /\ LET role == qthread[t].loading IN
       \E ok \in BOOLEAN :
          IF ok
          THEN /\ qmodel' = [qmodel EXCEPT ![role] = "loaded"]
               /\ qthread' = [qthread EXCEPT ![t].pc = AfterLoad(@), ![t].loading = "None"]
               /\ UNCHANGED <<LOAD_ERROR, LAST_ERR, DESIGN_SUPPORTED, DESIGN_DISABLED_REASON, INFER_LOCK,
                              probe_signal>>
          ELSE /\ LOAD_ERROR' = [LOAD_ERROR EXCEPT ![role] = "load_failed"]
               /\ LAST_ERR' = "error"
               /\ qthread' = [qthread EXCEPT ![t] = AfterLoadRaise(@)]
               /\ LoadRaiseEffects(t)
               /\ UNCHANGED qmodel
    /\ UNCHANGED <<chunkVars, sanitizeVars, cliVars, dispatchVars, xttsVars, speechVars, promptVars, _VOICE_DESIGN_GEN_SIG, design_cap, probe_invocations>>

(***************************************************************************)
(* qwen3_tts_server.py: probe_design_support                               *)
(***************************************************************************)
\* "if DESIGN_SUPPORTED is not None: return bool(DESIGN_SUPPORTED)"
ProbeCheck(t) ==
    /\ qthread[t].pc = "probe_check"
    /\ qthread' = [qthread EXCEPT ![t] =
          IF DESIGN_SUPPORTED # "None" THEN AfterProbe(@, DESIGN_SUPPORTED)
          ELSE [@ EXCEPT !.pc = "probe_load"]]
    /\ UNCHANGED <<chunkVars, sanitizeVars, cliVars, dispatchVars, xttsVars, speechVars, promptVars, _VOICE_DESIGN_GEN_SIG, probe_signal, design_cap, qmodel, LOAD_ERROR, DESIGN_SUPPORTED,
                   DESIGN_DISABLED_REASON, INFER_LOCK, LAST_ERR, probe_invocations>>

\* the probe's call_generate_voice_design(m, test inputs) up to the read of the
\* signature: None at once when the model has no callable generate_voice_design,
\* _init_voice_design_introspection when no signature is recorded (these
\* models have no create_* method, so the creator name stays None), and
\* otherwise the argument mapping is built and generate_voice_design starts
ProbeInvoke(t) ==
    /\ qthread[t].pc = "probe_call"
    /\ qthread' = [qthread EXCEPT ![t].pc =
          IF design_cap = "none" THEN "probe_none"
          ELSE IF _VOICE_DESIGN_GEN_SIG = "None" THEN "vd_init"
          ELSE "probe_calling"]
    /\ probe_invocations' =
          IF design_cap # "none" /\ _VOICE_DESIGN_GEN_SIG # "None"
          THEN probe_invocations + 1 ELSE probe_invocations
    /\ UNCHANGED <<chunkVars, sanitizeVars, cliVars, dispatchVars, xttsVars, speechVars, promptVars, _VOICE_DESIGN_GEN_SIG, probe_signal, design_cap, qmodel,
                   LOAD_ERROR, DESIGN_SUPPORTED, DESIGN_DISABLED_REASON, INFER_LOCK, LAST_ERR>>

\* _init_voice_design_introspection, its first two statements: both globals are reset
IntrospectReset(t) ==
    /\ qthread[t].pc = "vd_init"
    /\ _VOICE_DESIGN_GEN_SIG' = "None"
    /\ qthread' = [qthread EXCEPT ![t].pc = "vd_sig"]
    /\ UNCHANGED <<chunkVars, sanitizeVars, cliVars, dispatchVars, xttsVars, speechVars, promptVars, probe_signal, design_cap, qmodel, LOAD_ERROR,
                   DESIGN_SUPPORTED, DESIGN_DISABLED_REASON, INFER_LOCK, LAST_ERR, probe_invocations>>

\* _init_voice_design_introspection, the rest: the signature is recorded
IntrospectSet(t) ==
    /\ qthread[t].pc = "vd_sig"
    /\ _VOICE_DESIGN_GEN_SIG' = "sig"
    /\ qthread' = [qthread EXCEPT ![t].pc = "vd_read"]
    /\ UNCHANGED <<chunkVars, sanitizeVars, cliVars, dispatchVars, xttsVars, speechVars, promptVars, probe_signal, design_cap, qmodel, LOAD_ERROR,
                   DESIGN_SUPPORTED, DESIGN_DISABLED_REASON, INFER_LOCK, LAST_ERR, probe_invocations>>

\* "sig = _VOICE_DESIGN_GEN_SIG" after the introspection: None is returned when
\* it reads None, otherwise generate_voice_design starts
ProbeReadSig(t) ==
    /\ qthread[t].pc = "vd_read"
    /\ qthread' = [qthread EXCEPT ![t].pc =
          IF _VOICE_DESIGN_GEN_SIG = "None" THEN "probe_none" ELSE "probe_calling"]
    /\ probe_invocations' =
          IF _VOICE_DESIGN_GEN_SIG # "None" THEN probe_invocations + 1 ELSE probe_invocations
    /\ UNCHANGED <<chunkVars, sanitizeVars, cliVars, dispatchVars, xttsVars, speechVars, promptVars, _VOICE_DESIGN_GEN_SIG, probe_signal, design_cap, qmodel,
                   LOAD_ERROR, DESIGN_SUPPORTED, DESIGN_DISABLED_REASON, INFER_LOCK, LAST_ERR>>

\* what a running generate_voice_design with the test inputs can do on this
\* design model: what the model does with the operation, or a failure of the device
ProbeOutcomes == IF design_cap = "none" THEN {"none"} ELSE {design_cap, "error"}

\* the dispatch returned None, or the test call returned or raised:
\* DESIGN_SUPPORTED and the reason are set
ProbeReturn(t) ==
    /\ qthread[t].pc \in {"probe_none", "probe_calling"}
    /\ \E out \in (IF qthread[t].pc = "probe_none" THEN {"none"} ELSE ProbeOutcomes) :
          LET ret == IF out = "ok" THEN "True" ELSE "False" IN
          /\ DESIGN_SUPPORTED' = ret
          /\ DESIGN_DISABLED_REASON' =
                CASE out = "ok" -> "None"
                  [] out = "none" -> "signature_unsupported"
                  [] out = "unsupported" -> "does_not_support"
                  [] out = "error" -> "probe_error"
          /\ probe_signal' = FirstSignal(out)
          /\ qthread' = [qthread EXCEPT ![t] = AfterProbe(@, ret)]
    /\ UNCHANGED <<chunkVars, sanitizeVars, cliVars, dispatchVars, xttsVars, speechVars, promptVars, _VOICE_DESIGN_GEN_SIG, design_cap, qmodel, LOAD_ERROR,
                   INFER_LOCK, LAST_ERR, probe_invocations>>

(***************************************************************************)
(* qwen3_tts_server.py: /warmup and /speak                                 *)
(***************************************************************************)
\* the kinds of /speak request: empty text, reference audio, voice "custom"
\* with a description, anything else
SpeakReqs == {"empty", "clone", "custom_desc", "plain"}

\* a /warmup request starts on a free thread
WarmupArrive(t) ==
    /\ qthread[t].pc = "idle"
    /\ Cardinality({u \in QThreads : qthread[u].kind = "warmup"}) < MaxWarmups
    /\ qthread' = [qthread EXCEPT ![t] = [IdleThread EXCEPT !.pc = "w_tts", !.kind = "warmup"]]
    /\ UNCHANGED <<chunkVars, sanitizeVars, cliVars, dispatchVars, xttsVars, speechVars, promptVars, _VOICE_DESIGN_GEN_SIG, probe_signal, design_cap, qmodel, LOAD_ERROR, DESIGN_SUPPORTED,
                   DESIGN_DISABLED_REASON, INFER_LOCK, LAST_ERR, probe_invocations>>

\* a /speak request starts on a free thread; empty text is answered 400 at once
SpeakArrive(t) ==
    /\ qthread[t].pc = "idle"
    /\ \E rq \in SpeakReqs :
          qthread' = [qthread EXCEPT ![t] =
             IF rq = "empty"
             THEN [IdleThread EXCEPT !.pc = "q_exit", !.kind = "speak", !.req = rq, !.status = 400]
             ELSE [IdleThread EXCEPT !.pc = "s_lock", !.kind = "speak", !.req = rq]]
    /\ UNCHANGED <<chunkVars, sanitizeVars, cliVars, dispatchVars, xttsVars, speechVars, promptVars, _VOICE_DESIGN_GEN_SIG, probe_signal, design_cap, qmodel, LOAD_ERROR, DESIGN_SUPPORTED,
                   DESIGN_DISABLED_REASON, INFER_LOCK, LAST_ERR, probe_invocations>>

\* "with INFER_LOCK": the lock is taken and the path of the request is chosen
SpeakLock(t) ==
    /\ qthread[t].pc = "s_lock"
    /\ INFER_LOCK = 0
    /\ INFER_LOCK' = t
    /\ qthread' = [qthread EXCEPT ![t].pc =
          CASE qthread[t].req = "clone" -> "s_clone_load"
            [] qthread[t].req = "custom_desc" -> "probe_check"
            [] OTHER -> "s_tts_load"]
    /\ UNCHANGED <<chunkVars, sanitizeVars, cliVars, dispatchVars, xttsVars, speechVars, promptVars, _VOICE_DESIGN_GEN_SIG, probe_signal, design_cap, qmodel, LOAD_ERROR, DESIGN_SUPPORTED,
                   DESIGN_DISABLED_REASON, LAST_ERR, probe_invocations>>

\* the clone path before the backend call: the hasattr test (500 inside the
\* with block), decode_ref_audio_to_numpy (may raise), then generate_voice_clone starts
CloneInvoke(t) ==
    /\ qthread[t].pc = "s_clone_call"
    /\ \E pre \in {"no_method", "decode_error", "go"} :
          /\ qthread' = [qthread EXCEPT ![t] =
                CASE pre = "no_method" -> [@ EXCEPT !.pc = "q_exit", !.status = 500]
                  [] pre = "decode_error" -> [@ EXCEPT !.pc = "s_except"]
                  [] pre = "go" -> [@ EXCEPT !.pc = "s_clone_calling"]]
          /\ INFER_LOCK' = IF pre = "go" THEN INFER_LOCK ELSE 0
    /\ UNCHANGED <<chunkVars, sanitizeVars, cliVars, dispatchVars, xttsVars, speechVars, promptVars, _VOICE_DESIGN_GEN_SIG, probe_signal, design_cap, qmodel, LOAD_ERROR, DESIGN_SUPPORTED,
                   DESIGN_DISABLED_REASON, LAST_ERR, probe_invocations>>

\* generate_voice_clone returns or raises; leaving the with block releases the lock
CloneReturn(t) ==
    /\ qthread[t].pc = "s_clone_calling"
    /\ \E ok \in BOOLEAN :
          qthread' = [qthread EXCEPT ![t] =
             IF ok THEN [@ EXCEPT !.pc = "q_exit", !.wav = "clone", !.status = 200]
             ELSE [@ EXCEPT !.pc = "s_except"]]
    /\ INFER_LOCK' = 0
    /\ UNCHANGED <<chunkVars, sanitizeVars, cliVars, dispatchVars, xttsVars, speechVars, promptVars, _VOICE_DESIGN_GEN_SIG, probe_signal, design_cap, qmodel, LOAD_ERROR, DESIGN_SUPPORTED,
                   DESIGN_DISABLED_REASON, LAST_ERR, probe_invocations>>

\* a design call that is made again when it gave no result
DesignReturn_Again(t) ==
    /\ qthread[t].pc = "s_design_calling"
    /\ \E out \in {"ok", "none", "unsupported", "error"} :
       /\ qthread' = [qthread EXCEPT ![t] =
             CASE out = "ok" -> [@ EXCEPT !.pc = "q_exit", !.wav = "design", !.status = 200]
               [] out \in {"none", "unsupported"} ->
                     [@ EXCEPT !.pc = "s_design_load", !.design_result = "gave_up"]
               [] out = "error" -> [@ EXCEPT !.pc = "s_except", !.design_result = "raised"]]
       /\ IF out \in {"none", "unsupported"}
          THEN /\ DESIGN_SUPPORTED' = "False"
               /\ DESIGN_DISABLED_REASON' =
                     IF out = "none" THEN "signature_unsupported" ELSE "does_not_support"
          ELSE UNCHANGED <<DESIGN_SUPPORTED, DESIGN_DISABLED_REASON>>
       /\ INFER_LOCK' = IF out \in {"ok", "error"} THEN 0 ELSE INFER_LOCK
    /\ UNCHANGED <<chunkVars, sanitizeVars, cliVars, dispatchVars, xttsVars, speechVars, promptVars, _VOICE_DESIGN_GEN_SIG, probe_signal, design_cap, qmodel, LOAD_ERROR, LAST_ERR, probe_invocations>>

\* the design call of /speak ended: audio, or _disable_design and the fallback
\* (dispatch gave up, or "does not support generate_voice_design"), or an
\* exception that leaves the with block; design_result keeps which of the
\* last two it was ("wav is None" with design disabled, or the raise)
DesignReturn(t) ==
    /\ qthread[t].pc = "s_design_calling"
    /\ \E out \in {"ok", "none", "unsupported", "error"} :
       /\ qthread' = [qthread EXCEPT ![t] =
             CASE out = "ok" -> [@ EXCEPT !.pc = "q_exit", !.wav = "design", !.status = 200]
               [] out \in {"none", "unsupported"} ->
                     [@ EXCEPT !.pc = "s_tts_load", !.design_result = "gave_up"]
               [] out = "error" -> [@ EXCEPT !.pc = "s_except", !.design_result = "raised"]]
       /\ IF out \in {"none", "unsupported"}
          THEN /\ DESIGN_SUPPORTED' = "False"
               /\ DESIGN_DISABLED_REASON' =
                     IF out = "none" THEN "signature_unsupported" ELSE "does_not_support"
          ELSE UNCHANGED <<DESIGN_SUPPORTED, DESIGN_DISABLED_REASON>>
       /\ INFER_LOCK' = IF out \in {"ok", "error"} THEN 0 ELSE INFER_LOCK
    /\ UNCHANGED <<chunkVars, sanitizeVars, cliVars, dispatchVars, xttsVars, speechVars, promptVars, _VOICE_DESIGN_GEN_SIG, probe_signal, design_cap, qmodel, LOAD_ERROR, LAST_ERR, probe_invocations>>

\* generate_custom_voice / generate of the TTS model returns or raises; leaving the with block releases the lock
TtsReturn(t) ==
    /\ qthread[t].pc = "s_tts_calling"
    /\ \E ok \in BOOLEAN :
          qthread' = [qthread EXCEPT ![t] =
             IF ok THEN [@ EXCEPT !.pc = "q_exit", !.wav = "tts", !.status = 200]
             ELSE [@ EXCEPT !.pc = "s_except"]]
    /\ INFER_LOCK' = 0
    /\ UNCHANGED <<chunkVars, sanitizeVars, cliVars, dispatchVars, xttsVars, speechVars, promptVars, _VOICE_DESIGN_GEN_SIG, probe_signal, design_cap, qmodel, LOAD_ERROR, DESIGN_SUPPORTED,
                   DESIGN_DISABLED_REASON, LAST_ERR, probe_invocations>>

\* the "except Exception as e" clause of speak(): LAST_ERR is recorded, 500
SpeakExcept(t) ==
    /\ qthread[t].pc = "s_except"
    /\ LAST_ERR' = "error"
    /\ qthread' = [qthread EXCEPT ![t].pc = "q_exit", ![t].status = 500]
    /\ UNCHANGED <<chunkVars, sanitizeVars, cliVars, dispatchVars, xttsVars, speechVars, promptVars, _VOICE_DESIGN_GEN_SIG, probe_signal, design_cap, qmodel, LOAD_ERROR, DESIGN_SUPPORTED,
                   DESIGN_DISABLED_REASON, INFER_LOCK, probe_invocations>>

\* the response is sent and the thread is free again
QReturn(t) ==
    /\ qthread[t].pc = "q_exit"
    /\ qthread' = [qthread EXCEPT ![t] = IdleThread]
    /\ UNCHANGED <<chunkVars, sanitizeVars, cliVars, dispatchVars, xttsVars, speechVars, promptVars, _VOICE_DESIGN_GEN_SIG, probe_signal, design_cap, qmodel, LOAD_ERROR, DESIGN_SUPPORTED,
                   DESIGN_DISABLED_REASON, INFER_LOCK, LAST_ERR, probe_invocations>>

\* GET /capabilities: the design fields of the answer in the current state
capabilities ==
    [design_supported |-> DESIGN_SUPPORTED, design_disabled_reason |-> DESIGN_DISABLED_REASON]

\* GET /health: the loaded flags, the design fields and the load errors of the answer
health ==
    [tts_loaded |-> qmodel["tts"] # "None",
     clone_loaded |-> qmodel["clone"] # "None",
     design_loaded |-> qmodel["design"] # "None",
     design_supported |-> DESIGN_SUPPORTED,
     design_disabled_reason |-> DESIGN_DISABLED_REASON,
     load_error_tts |-> LOAD_ERROR["tts"],
     load_error_clone |-> LOAD_ERROR["clone"],
     load_error_design |-> LOAD_ERROR["design"]]

InitQwen ==
    /\ ChunkIdle
    /\ CliIdle
    /\ SanitizeIdle
    /\ DispatchIdle
    /\ XttsIdle
    /\ SpeechIdle
    /\ design_cap \in {"ok", "none", "unsupported"}
    /\ QwenStart

NextQwen ==
    \E t \in QThreads :
        \/ WarmupArrive(t)
        \/ SpeakArrive(t)
        \/ SpeakLock(t)
        \/ LoadStart(t)
        \/ LoadFinish(t)
        \/ ProbeCheck(t)
        \/ ProbeInvoke(t)
        \/ IntrospectReset(t)
        \/ IntrospectSet(t)
        \/ ProbeReadSig(t)
        \/ ProbeReturn(t)
        \/ CloneInvoke(t)
        \/ CloneReturn(t)
        \/ DesignReturn(t)
        \/ TtsReturn(t)
        \/ SpeakExcept(t)
        \/ QReturn(t)

SpecQwen == InitQwen /\ [][NextQwen]_vars

(***************************************************************************)
(* qwen3_tts_server.py: the prompt cache, for a design model that has a    *)
(* create_* method and a generate_voice_design with a prompt parameter.    *)
(* The loads succeed here and are part of the step that calls them.        *)
(***************************************************************************)
\* test_desc of probe_design_support
TestDesc == "Test voice design."

\* the custom_description values of /speak requests, stripped
Descs == {TestDesc, "calm"}

\* the name of the creator method, as found by _init_voice_design_introspection
CreatorName == "create_voice_design_prompt"

\* the positions of the probe's dispatch and of the design dispatch of /speak
ProbeDispatchPcs == {"pr_dispatch", "pr_create", "pr_creating", "pr_calling"}

\* base_desc.strip() of the dispatch a thread is in
Key(th) == IF th.pc \in ProbeDispatchPcs THEN TestDesc ELSE th.req

\* the position in the same dispatch
At(th, step) == IF th.pc \in ProbeDispatchPcs THEN "pr_" \o step ELSE "ds_" \o step

InitPrompt ==
    /\ ChunkIdle
    /\ CliIdle
    /\ SanitizeIdle
    /\ DispatchIdle
    /\ XttsIdle
    /\ SpeechIdle
    /\ design_cap = "ok"
    /\ QwenStart

\* GET /warmup: load_tts, load_clone and load_design return their models
PWarmupArrive(t) ==
    /\ qthread[t].pc = "idle"
    /\ qmodel' = [role \in Roles |-> "loaded"]
    /\ qthread' = [qthread EXCEPT ![t] = [IdleThread EXCEPT !.pc = "pp_check", !.kind = "warmup"]]
    /\ UNCHANGED <<chunkVars, sanitizeVars, cliVars, dispatchVars, xttsVars, speechVars, promptVars,
                   design_cap, LOAD_ERROR, DESIGN_SUPPORTED, DESIGN_DISABLED_REASON, INFER_LOCK,
                   LAST_ERR, probe_invocations, _VOICE_DESIGN_GEN_SIG, probe_signal>>

\* POST /speak for voice "custom" with a description and no reference audio
PSpeakArrive(t) ==
    /\ qthread[t].pc = "idle"
    /\ \E desc \in Descs :
          qthread' = [qthread EXCEPT ![t] =
                        [IdleThread EXCEPT !.pc = "pp_lock", !.kind = "speak", !.req = desc]]
    /\ UNCHANGED <<chunkVars, sanitizeVars, cliVars, dispatchVars, xttsVars, speechVars, promptVars,
                   design_cap, qmodel, LOAD_ERROR, DESIGN_SUPPORTED, DESIGN_DISABLED_REASON,
                   INFER_LOCK, LAST_ERR, probe_invocations, _VOICE_DESIGN_GEN_SIG, probe_signal>>

\* "with INFER_LOCK" of speak()
PSpeakLock(t) ==
    /\ qthread[t].pc = "pp_lock"
    /\ INFER_LOCK = 0
    /\ INFER_LOCK' = t
    /\ qthread' = [qthread EXCEPT ![t].pc = "pp_check"]
    /\ UNCHANGED <<chunkVars, sanitizeVars, cliVars, dispatchVars, xttsVars, speechVars, promptVars,
                   design_cap, qmodel, LOAD_ERROR, DESIGN_SUPPORTED, DESIGN_DISABLED_REASON,
                   LAST_ERR, probe_invocations, _VOICE_DESIGN_GEN_SIG, probe_signal>>

\* the thread once probe_design_support() has returned ret: /warmup answers,
\* /speak starts the design dispatch or synthesizes with the fallback model
PAfterProbe(th, ret) ==
    IF th.kind = "warmup" THEN [th EXCEPT !.pc = "q_exit", !.status = 200]
    ELSE IF ret = "True" THEN [th EXCEPT !.pc = "ds_dispatch"]
    ELSE [th EXCEPT !.pc = "q_exit", !.status = 200, !.wav = "tts"]

\* INFER_LOCK when thread th continues as now: free once a /speak thread is at its exit
PLockAfter(th, now) == IF th.kind = "speak" /\ now.pc = "q_exit" THEN 0 ELSE INFER_LOCK

\* the head of probe_design_support(): a known state is returned, otherwise
\* load_design() returns the model and the probe's dispatch starts
PProbeCheck(t) ==
    /\ qthread[t].pc = "pp_check"
    /\ LET now == IF DESIGN_SUPPORTED # "None" THEN PAfterProbe(qthread[t], DESIGN_SUPPORTED)
                  ELSE [qthread[t] EXCEPT !.pc = "pr_dispatch"]
       IN /\ qthread' = [qthread EXCEPT ![t] = now]
          /\ INFER_LOCK' = PLockAfter(qthread[t], now)
    /\ qmodel' = IF DESIGN_SUPPORTED = "None" THEN [qmodel EXCEPT !["design"] = "loaded"] ELSE qmodel
    /\ UNCHANGED <<chunkVars, sanitizeVars, cliVars, dispatchVars, xttsVars, speechVars, promptVars,
                   design_cap, LOAD_ERROR, DESIGN_SUPPORTED, DESIGN_DISABLED_REASON,
                   LAST_ERR, probe_invocations, _VOICE_DESIGN_GEN_SIG, probe_signal>>

\* call_generate_voice_design up to the cache test of
\* get_or_create_voice_design_prompt: the introspection when nothing is
\* recorded yet, the arguments, then "if key in VOICE_DESIGN_CACHE"
PDispatch(t) ==
    /\ qthread[t].pc \in {"pr_dispatch", "ds_dispatch"}
    /\ IF _VOICE_DESIGN_GEN_SIG = "None" /\ _VOICE_DESIGN_CREATOR_NAME = "None"
       THEN /\ _VOICE_DESIGN_GEN_SIG' = "sig"
            /\ _VOICE_DESIGN_CREATOR_NAME' = CreatorName
       ELSE UNCHANGED <<_VOICE_DESIGN_GEN_SIG, _VOICE_DESIGN_CREATOR_NAME>>
    /\ qthread' = [qthread EXCEPT ![t].pc =
                     IF Key(qthread[t]) \in VOICE_DESIGN_CACHE
                     THEN At(qthread[t], "calling")
                     ELSE At(qthread[t], "create")]
    /\ UNCHANGED <<chunkVars, sanitizeVars, cliVars, dispatchVars, xttsVars, speechVars, VOICE_DESIGN_CACHE,
                   design_cap, qmodel, LOAD_ERROR, DESIGN_SUPPORTED, DESIGN_DISABLED_REASON,
                   INFER_LOCK, LAST_ERR, probe_invocations, probe_signal>>

\* after the cache miss: the creator is looked up and "prompt = creator(key)" starts
PCreate(t) ==
    /\ qthread[t].pc \in {"pr_create", "ds_create"}
    /\ qthread' = [qthread EXCEPT ![t].pc = At(qthread[t], "creating")]
    /\ UNCHANGED <<chunkVars, sanitizeVars, cliVars, dispatchVars, xttsVars, speechVars, promptVars,
                   design_cap, qmodel, LOAD_ERROR, DESIGN_SUPPORTED, DESIGN_DISABLED_REASON,
                   INFER_LOCK, LAST_ERR, probe_invocations, _VOICE_DESIGN_GEN_SIG, probe_signal>>

\* what a call of the design model that raised leaves behind: the probe is
\* inside _disable_design(msg) between its two assignments, speak() answers 500
PRaise(th) ==
    IF th.pc \in ProbeDispatchPcs THEN [th EXCEPT !.pc = "pr_reason", !.reason = "probe_error"]
    ELSE [th EXCEPT !.pc = "q_exit", !.status = 500]

\* the creator returns the prompt object, which is stored under key and the
\* generate_voice_design call starts; or the creator raises
PCreated(t) ==
    /\ qthread[t].pc \in {"pr_creating", "ds_creating"}
    /\ \E ok \in BOOLEAN :
          LET th == qthread[t]
              now == IF ok THEN [th EXCEPT !.pc = At(th, "calling")] ELSE PRaise(th)
          IN /\ qthread' = [qthread EXCEPT ![t] = now]
             /\ VOICE_DESIGN_CACHE' = IF ok THEN VOICE_DESIGN_CACHE \cup {Key(th)}
                                      ELSE VOICE_DESIGN_CACHE
             /\ INFER_LOCK' = PLockAfter(th, now)
             /\ DESIGN_SUPPORTED' = IF ~ok /\ th.pc \in ProbeDispatchPcs THEN "False"
                                    ELSE DESIGN_SUPPORTED
             /\ LAST_ERR' = IF ~ok /\ th.pc \notin ProbeDispatchPcs THEN "error" ELSE LAST_ERR
    /\ UNCHANGED <<chunkVars, sanitizeVars, cliVars, dispatchVars, xttsVars, speechVars,
                   _VOICE_DESIGN_CREATOR_NAME, design_cap, qmodel, LOAD_ERROR,
                   DESIGN_DISABLED_REASON, probe_invocations, _VOICE_DESIGN_GEN_SIG, probe_signal>>

\* generate_voice_design returns audio or raises: the probe assigns
\* DESIGN_SUPPORTED (the reason is assigned by the next statement), speak()
\* answers with the audio or with 500
PCallReturn(t) ==
    /\ qthread[t].pc \in {"pr_calling", "ds_calling"}
    /\ \E ok \in BOOLEAN :
          LET th == qthread[t]
              probing == th.pc \in ProbeDispatchPcs
              now == IF ~ok THEN PRaise(th)
                     ELSE IF probing THEN [th EXCEPT !.pc = "pr_reason", !.reason = "None"]
                     ELSE [th EXCEPT !.pc = "q_exit", !.status = 200, !.wav = "design"]
          IN /\ qthread' = [qthread EXCEPT ![t] = now]
             /\ INFER_LOCK' = PLockAfter(th, now)
             /\ DESIGN_SUPPORTED' = IF probing THEN (IF ok THEN "True" ELSE "False")
                                    ELSE DESIGN_SUPPORTED
             /\ LAST_ERR' = IF ~ok /\ ~probing THEN "error" ELSE LAST_ERR
    /\ UNCHANGED <<chunkVars, sanitizeVars, cliVars, dispatchVars, xttsVars, speechVars, promptVars,
                   design_cap, qmodel, LOAD_ERROR, DESIGN_DISABLED_REASON, probe_invocations,
                   _VOICE_DESIGN_GEN_SIG, probe_signal>>

\* the second assignment of the probe's result: "DESIGN_DISABLED_REASON = None"
\* after "DESIGN_SUPPORTED = True", "DESIGN_DISABLED_REASON = reason" in
\* _disable_design; then probe_design_support() returns
PWriteReason(t) ==
    /\ qthread[t].pc = "pr_reason"
    /\ LET th == qthread[t]
           now == PAfterProbe([th EXCEPT !.reason = "None"],
                              IF th.reason = "None" THEN "True" ELSE "False")
       IN /\ DESIGN_DISABLED_REASON' = th.reason
          /\ qthread' = [qthread EXCEPT ![t] = now]
          /\ INFER_LOCK' = PLockAfter(th, now)
    /\ UNCHANGED <<chunkVars, sanitizeVars, cliVars, dispatchVars, xttsVars, speechVars, promptVars,
                   design_cap, qmodel, LOAD_ERROR, DESIGN_SUPPORTED, LAST_ERR, probe_invocations,
                   _VOICE_DESIGN_GEN_SIG, probe_signal>>

NextPrompt ==
    \E t \in QThreads :
        \/ PWarmupArrive(t)
        \/ PSpeakArrive(t)
        \/ PSpeakLock(t)
        \/ PProbeCheck(t)
        \/ PDispatch(t)
        \/ PCreate(t)
        \/ PCreated(t)
        \/ PCallReturn(t)
        \/ PWriteReason(t)
        \/ QReturn(t)

SpecPrompt == InitPrompt /\ [][NextPrompt]_vars

(***************************************************************************)
(* tools/xtts_server.py: the XTTS Flask server                             *)
(* Every "with MODEL_LOCK:" block is one step: the lock is only ever held  *)
(* across such a block, so the blocks exclude one another.                 *)
(***************************************************************************)
InitXtts ==
    /\ ChunkIdle
    /\ CliIdle
    /\ SanitizeIdle
    /\ DispatchIdle
    /\ SpeechIdle
    /\ QwenIdle
    /\ EAGER \in BOOLEAN
    /\ XttsStart
    /\ xthread = [t \in XThreads |->
                    IF t = 0 /\ EAGER
                    THEN [IdleXThread EXCEPT !.pc = "load_enter", !.kind = "eager"]
                    ELSE IdleXThread]

\* where a thread continues once load_model_if_needed() has returned to it; via
\* names the return statement taken: "model" line 91, "loading" line 93,
\* "loaded" line 149, "failed" line 157
XAfterLoad(th, via) ==
    LET ok == via \in {"model", "loaded"}
    IN
    [th EXCEPT !.ok = IF ok THEN "True" ELSE "False",
               !.via = via,
               !.pc = CASE th.kind = "eager" -> "ended"
                        [] th.kind = "health" -> "health_read"
                        [] th.kind = "speak" /\ ok -> "speak_body"
                        [] OTHER -> "ensure_read"]

\* a request reaches a free thread of the threaded Flask server
XArrive(t) ==
    /\ t \in XReqThreads
    /\ xthread[t].pc = "idle"
    /\ \E kind \in {"health", "speak"} :
         xthread' = [xthread EXCEPT ![t] =
                       [IdleXThread EXCEPT !.kind = kind,
                                           !.pc = IF kind = "health" /\ ~EAGER
                                                  THEN "health_read"
                                                  ELSE "load_enter"]]
    /\ UNCHANGED <<EAGER, MODEL, LOADING, XTTS_LOAD_ERROR, load_count>>
    /\ UNCHANGED <<chunkVars, sanitizeVars, cliVars, dispatchVars, speechVars, qwenVars>>

\* the head of load_model_if_needed() without the test of LOADING
LoadEnter_NoLoadingTest(t) ==
    /\ xthread[t].pc = "load_enter"
    /\ IF MODEL # "None"
       THEN /\ xthread' = [xthread EXCEPT ![t] = XAfterLoad(@, "model")]
            /\ UNCHANGED <<LOADING, XTTS_LOAD_ERROR>>
       ELSE /\ LOADING' = TRUE
            /\ XTTS_LOAD_ERROR' = "None"
            /\ xthread' = [xthread EXCEPT ![t].pc = "loading"]
    /\ UNCHANGED <<EAGER, MODEL, load_count>>
    /\ UNCHANGED <<chunkVars, sanitizeVars, cliVars, dispatchVars, speechVars, qwenVars>>

\* the head of load_model_if_needed(), under MODEL_LOCK
LoadEnter(t) ==
    /\ xthread[t].pc = "load_enter"
    /\ IF MODEL # "None"
       THEN /\ xthread' = [xthread EXCEPT ![t] = XAfterLoad(@, "model")]
            /\ UNCHANGED <<LOADING, XTTS_LOAD_ERROR>>
       ELSE IF LOADING
       THEN /\ xthread' = [xthread EXCEPT ![t] = XAfterLoad(@, "loading")]
            /\ UNCHANGED <<LOADING, XTTS_LOAD_ERROR>>
       ELSE /\ LOADING' = TRUE
            /\ XTTS_LOAD_ERROR' = "None"
            /\ xthread' = [xthread EXCEPT ![t].pc = "loading"]
    /\ UNCHANGED <<EAGER, MODEL, load_count>>
    /\ UNCHANGED <<chunkVars, sanitizeVars, cliVars, dispatchVars, speechVars, qwenVars>>


\* variant: the model is stored while the LOADING flag is left set
LoadSucceed_KeepLoading(t) ==
    /\ xthread[t].pc = "loading"
    /\ MODEL' = "loaded"
    /\ load_count' = load_count + 1
    /\ xthread' = [xthread EXCEPT ![t] = XAfterLoad(@, "loaded")]
    /\ UNCHANGED <<EAGER, LOADING, XTTS_LOAD_ERROR>>
    /\ UNCHANGED <<chunkVars, sanitizeVars, cliVars, dispatchVars, speechVars, qwenVars>>

\* the loading section runs to its end and the model is published
LoadSucceed(t) ==
    /\ xthread[t].pc = "loading"
    /\ MODEL' = "loaded"
    /\ LOADING' = FALSE
    /\ load_count' = load_count + 1
    /\ xthread' = [xthread EXCEPT ![t] = XAfterLoad(@, "loaded")]
    /\ UNCHANGED <<EAGER, XTTS_LOAD_ERROR>>
    /\ UNCHANGED <<chunkVars, sanitizeVars, cliVars, dispatchVars, speechVars, qwenVars>>

\* the loading section raises and the error is recorded
LoadFail(t) ==
    /\ xthread[t].pc = "loading"
    /\ XTTS_LOAD_ERROR' = "error"
    /\ LOADING' = FALSE
    /\ xthread' = [xthread EXCEPT ![t] = XAfterLoad(@, "failed")]
    /\ UNCHANGED <<EAGER, MODEL, load_count>>
    /\ UNCHANGED <<chunkVars, sanitizeVars, cliVars, dispatchVars, speechVars, qwenVars>>

\* ensure_loaded_or_503() after load_model_if_needed() returned False
EnsureRead(t) ==
    /\ xthread[t].pc = "ensure_read"
    /\ LET err == XTTS_LOAD_ERROR
           loading == LOADING
           resp == IF err # "None"
                   THEN [status |-> 500, loading |-> FALSE, error |-> err]
                   ELSE IF loading
                   THEN [status |-> 503, loading |-> TRUE, error |-> "None"]
                   ELSE [status |-> 500, loading |-> FALSE, error |-> "unknown"]
       IN xthread' = [xthread EXCEPT ![t].pc = "done", ![t].resp = resp]
    /\ UNCHANGED <<EAGER, MODEL, LOADING, XTTS_LOAD_ERROR, load_count>>
    /\ UNCHANGED <<chunkVars, sanitizeVars, cliVars, dispatchVars, speechVars, qwenVars>>

\* /health reads the module state under MODEL_LOCK and answers
HealthRead(t) ==
    /\ xthread[t].pc = "health_read"
    /\ xthread' = [xthread EXCEPT
                     ![t].pc = "done",
                     ![t].m = MODEL,
                     ![t].resp = [status |-> 200, loading |-> LOADING,
                                  error |-> XTTS_LOAD_ERROR]]
    /\ UNCHANGED <<EAGER, MODEL, LOADING, XTTS_LOAD_ERROR, load_count>>
    /\ UNCHANGED <<chunkVars, sanitizeVars, cliVars, dispatchVars, speechVars, qwenVars>>

\* /speak once the model is there: the text is checked, then MODEL is read
SpeakBody(t) ==
    /\ xthread[t].pc = "speak_body"
    /\ \E empty \in BOOLEAN :
         xthread' = [xthread EXCEPT ![t] =
                       IF empty
                       THEN [@ EXCEPT !.pc = "done",
                                      !.resp = [status |-> 400, loading |-> FALSE,
                                                error |-> "Missing 'text'"]]
                       ELSE [@ EXCEPT !.pc = "synthesize", !.m = MODEL]]
    /\ UNCHANGED <<EAGER, MODEL, LOADING, XTTS_LOAD_ERROR, load_count>>
    /\ UNCHANGED <<chunkVars, sanitizeVars, cliVars, dispatchVars, speechVars, qwenVars>>

\* m.synthesize(...) returns audio, returns no wav, or raises
Synthesize(t) ==
    /\ xthread[t].pc = "synthesize"
    /\ \E result \in {"wav", "No wav produced", "raised"} :
         xthread' = [xthread EXCEPT
                       ![t].pc = "done",
                       ![t].resp = IF result = "wav" /\ xthread[t].m # "None"
                                   THEN [status |-> 200, loading |-> FALSE, error |-> "None"]
                                   ELSE [status |-> 500, loading |-> FALSE,
                                         error |-> IF xthread[t].m = "None"
                                                   THEN "raised" ELSE result]]
    /\ UNCHANGED <<EAGER, MODEL, LOADING, XTTS_LOAD_ERROR, load_count>>
    /\ UNCHANGED <<chunkVars, sanitizeVars, cliVars, dispatchVars, speechVars, qwenVars>>

\* the response is sent and the thread is free again
XRespond(t) ==
    /\ xthread[t].pc = "done"
    /\ xthread' = [xthread EXCEPT ![t] = IdleXThread]
    /\ UNCHANGED <<EAGER, MODEL, LOADING, XTTS_LOAD_ERROR, load_count>>
    /\ UNCHANGED <<chunkVars, sanitizeVars, cliVars, dispatchVars, speechVars, qwenVars>>

NextXtts ==
    \E t \in XThreads :
        \/ XArrive(t)
        \/ LoadEnter(t)
        \/ LoadSucceed(t)
        \/ LoadFail(t)
        \/ EnsureRead(t)
        \/ HealthRead(t)
        \/ SpeakBody(t)
        \/ Synthesize(t)
        \/ XRespond(t)

SpecXtts == InitXtts /\ [][NextXtts]_vars

(***************************************************************************)
(* chatterbox_stream_cli.py: write_frame and main, for arguments that      *)
(* parse and a stdout that takes every write                               *)
(***************************************************************************)
\* the most chunks the generator yields
MaxYields == 3

\* the PCM16LE chunks the generator yields: nothing, one sample, two samples
\* of silence
PcmChunks == {<<>>, <<1, 0>>, <<0, 0, 0, 0>>}

\* how the iteration over stream_tts(...) ends: the generator is exhausted, it
\* raises an exception, or KeyboardInterrupt is raised while it runs
Endings == {"StopIteration", "Exception", "KeyboardInterrupt"}

RECURSIVE YieldSeqs(_)
\* the sequences of at most n chunks
YieldSeqs(n) ==
    IF n = 0 THEN {<<>>}
    ELSE YieldSeqs(n - 1) \cup
         {Append(ys, c) : ys \in {y \in YieldSeqs(n - 1) : Len(y) = n - 1}, c \in PcmChunks}

\* struct.pack("<I", n): four bytes, least significant first
pack_I(n) == <<n % 256, (n \div 256) % 256, (n \div 65536) % 256, (n \div 16777216) % 256>>

\* write_frame(pcm_bytes) on the bytes out written so far: the length, then
\* the payload when there is one
write_frame(out, pcm_bytes) ==
    IF pcm_bytes # <<>> THEN (out \o pack_I(Len(pcm_bytes))) \o pcm_bytes
    ELSE out \o pack_I(Len(pcm_bytes))

InitCli ==
    /\ ChunkIdle
    /\ SanitizeIdle
    /\ DispatchIdle
    /\ XttsIdle
    /\ SpeechIdle
    /\ QwenIdle
    /\ importable \in BOOLEAN
    /\ stream_tts \in [yields : YieldSeqs(MaxYields), ending : Endings]
    /\ cli_pc = "import"
    /\ consumed = 0
    /\ stdout = <<>>
    /\ exit_code = -1

\* "from chatterbox_streaming import stream_tts": main() returns 2 when it fails
Import ==
    /\ cli_pc = "import"
    /\ cli_pc' = IF importable THEN "loop" ELSE "exited"
    /\ exit_code' = IF importable THEN exit_code ELSE 2
    /\ UNCHANGED <<importable, stream_tts, consumed, stdout>>
    /\ UNCHANGED <<chunkVars, sanitizeVars, dispatchVars, xttsVars, speechVars, qwenVars>>

\* one round of "for pcm in stream_tts(...)": an empty chunk is skipped, any
\* other is written as a frame
Iterate ==
    /\ cli_pc = "loop"
    /\ consumed < Len(stream_tts.yields)
    /\ LET pcm == stream_tts.yields[consumed + 1] IN
       stdout' = IF pcm = <<>> THEN stdout ELSE write_frame(stdout, pcm)
    /\ consumed' = consumed + 1
    /\ UNCHANGED <<importable, stream_tts, cli_pc, exit_code>>
    /\ UNCHANGED <<chunkVars, sanitizeVars, dispatchVars, xttsVars, speechVars, qwenVars>>

\* the iteration ends: the end marker and 0 when the generator is exhausted,
\* 0 on KeyboardInterrupt, 1 on any other exception
Finish ==
    /\ cli_pc = "loop"
    /\ consumed = Len(stream_tts.yields)
    /\ stdout' = IF stream_tts.ending = "StopIteration" THEN write_frame(stdout, <<>>) ELSE stdout
    /\ exit_code' = IF stream_tts.ending = "Exception" THEN 1 ELSE 0
    /\ cli_pc' = "exited"
    /\ UNCHANGED <<importable, stream_tts, consumed>>
    /\ UNCHANGED <<chunkVars, sanitizeVars, dispatchVars, xttsVars, speechVars, qwenVars>>

NextCli ==
    \/ Import
    \/ Iterate
    \/ Finish

SpecCli == InitCli /\ [][NextCli]_vars

(***************************************************************************)
(* The two servers: separate processes without shared state, so a step of  *)
(* one is taken while the other is at rest                                 *)
(***************************************************************************)
InitServers == InitSpeech \/ InitQwen

NextServers ==
    \/ QwenIdle /\ NextSpeech
    \/ SpeechIdle /\ NextQwen

SpecServers == InitServers /\ [][NextServers]_vars

(***************************************************************************)
(* Properties of the chunker                                               *)
(***************************************************************************)
RECURSIVE Flatten(_)
\* the chunks joined in output order
Flatten(cs) == IF cs = <<>> THEN <<>> ELSE Head(cs) \o Flatten(Tail(cs))

\* s with all whitespace removed
NoSpace(s) == SelectSeq(s, LAMBDA c : ~IsSpace(c))

\* how many times c occurs in s
Count(c, s) == Cardinality({i \in 1..Len(s) : s[i] = c})

\* t is a normalized text: _sanitize_text leaves it as it is
IsNormalized(t) == _sanitize_text(t) = t

\* the sentences of the text, as the chunker sees them
SentencesOf(t) == StripNonBlank(sentence_split(t))

\* C1: for a normalized text the chunks, joined in output order and with the
\* whitespace removed, are the text with its whitespace removed (same
\* characters in the same order)
C1_OrderPreserved ==
    (split_done /\ IsNormalized(text)) => NoSpace(Flatten(chunks)) = NoSpace(text)

\* C2: the chunks together hold every non-whitespace character of the text
\* exactly as many times as the text does: nothing dropped, nothing duplicated
C2_NoTruncation ==
    split_done => \A c \in Chars : ~IsSpace(c) => Count(c, Flatten(chunks)) = Count(c, text)

\* C2 witness: a sentence longer than max_chars was split at clause or word
\* level into several chunks
C2_Witness ==
    /\ split_done
    /\ Len(chunks) >= 3
    /\ \E i \in 1..Len(SentencesOf(text)) : Len(SentencesOf(text)[i]) > max_chars
    /\ \E i \in 1..Len(SentencesOf(text)) : Len(SentencesOf(text)[i]) <= max_chars

\* C3: every chunk is non-empty and at most max_chars long, except a chunk
\* that is one whole whitespace-free token of the text longer than max_chars
C3_ChunkBound ==
    split_done =>
        \A i \in 1..Len(chunks) :
            /\ chunks[i] # <<>>
            /\ \/ Len(chunks[i]) <= max_chars
               \/ /\ \A k \in 1..Len(chunks[i]) : ~IsSpace(chunks[i][k])
                  /\ \E w \in 1..Len(split_words(text, <<>>, <<>>)) :
                        split_words(text, <<>>, <<>>)[w] = chunks[i]

\* C3 witness: one chunk is a token longer than max_chars, emitted alone next
\* to a chunk that keeps the bound
C3_Witness ==
    /\ split_done
    /\ max_chars >= 2
    /\ \E i \in 1..Len(chunks) : Len(chunks[i]) > max_chars
    /\ \E i \in 1..Len(chunks) : Len(chunks[i]) = max_chars

(***************************************************************************)
(* Properties of the sanitizer                                             *)
(***************************************************************************)
\* C14: _sanitize_text is idempotent: sanitizing its own output changes nothing
C14_Idempotent ==
    sanitize_done => _sanitize_text(text_clean) = text_clean

\* the zero-width characters U+200B, U+200C, U+200D, U+FEFF
ZeroWidth == {"zwsp", "zwnj", "zwj", "bom"}

\* the non-printable control characters other than newline and tab, as far as
\* the model alphabet has them
ControlChars == {"bel"}

\* C15: the output of _sanitize_text holds no zero-width character and no
\* control character other than newline and tab
C15_NoInvisible ==
    sanitize_done =>
        \A i \in 1..Len(text_clean) : text_clean[i] \notin ZeroWidth \cup ControlChars

(***************************************************************************)
(* Properties of the adaptive dispatch                                     *)
(***************************************************************************)
\* the parameters of the operation that need an argument: no default, not * or **
RequiredParams ==
    {n \in DOMAIN sig.params :
        ~sig.params[n].has_default /\ sig.params[n].kind \notin {"VAR_POSITIONAL", "VAR_KEYWORD"}}

\* the names call_generate_voice_design can fill from its arguments
DesignMapping ==
    ({"text", "language", "description", "instruct", "emotion"} \cap DOMAIN sig.params)
    \cup ({PromptParam(DOMAIN sig.params)} \ {"None"})

\* C18: when generate_voice_design has a required parameter that the argument
\* mapping does not hold, call_generate_voice_design returns None and makes no call
C18_SkipWhenRequiredMissing ==
    (target = "generate_voice_design" /\ outcome # Pending /\ RequiredParams \ DesignMapping # {})
    => outcome = ReturnedNone

\* C19: a call made by the dispatch passes only names the operation declares,
\* each with a value the caller supplied (the prompt object comes from the
\* supplied description)
C19_OnlyDeclaredAndSupplied ==
    outcome.state \in {"called", "type_error"} =>
        /\ sig.known
        /\ DOMAIN outcome.kwargs \subseteq DOMAIN sig.params
        /\ \A k \in DOMAIN outcome.kwargs :
              IF target = "inference" THEN outcome.kwargs[k] = k /\ k \in request
              ELSE outcome.kwargs[k] \in request

\* C19 witness: inference ran with fewer arguments than the caller supplied,
\* because the operation does not declare a supplied generation control
C19_Witness ==
    /\ target = "inference"
    /\ outcome.state = "called"
    /\ "temperature" \in request /\ "temperature" \notin DOMAIN sig.params
    /\ "speed" \in request /\ "speed" \in DOMAIN outcome.kwargs

(***************************************************************************)
(* Properties of speech()                                                  *)
(***************************************************************************)
\* the generate calls a request made for chunk i, in call order
GenCalls(r, i) == SelectSeq(speech[r].log, LAMBDA e : e.op = "generate" /\ e.chunk = i)

\* the positions of the log of r at which generate was called for chunk i
GenPositions(r, i) ==
    {k \in 1..Len(speech[r].log) : speech[r].log[k].op = "generate" /\ speech[r].log[k].chunk = i}

\* the response of r is built and r is about to leave speech()
Ended(r) == speech[r].pc = "exit"

\* the chunk numbers of the audio segments of a waveform, in order
RECURSIVE ChunkIdxs(_)
ChunkIdxs(parts) ==
    IF parts = <<>> THEN <<>>
    ELSE IF Head(parts).kind = "chunk" THEN <<Head(parts).idx>> \o ChunkIdxs(Tail(parts))
    ELSE ChunkIdxs(Tail(parts))

\* C4: with retry enabled a chunk whose first generate call raised a device
\* error gets exactly one more call; when that one raises too the request ends
\* with an error without audio and no later chunk is synthesized; no chunk
\* gets more than two generate calls
C4_RetryOnce ==
    \A r \in Reqs :
        /\ \A i \in 1..Len(speech[r].chunks) : Len(GenCalls(r, i)) <= 2
        /\ (Ended(r) /\ RETRY_ON_CUDA_ERROR # 0) =>
              \A i \in 1..Len(speech[r].chunks) :
                  LET g == GenCalls(r, i) IN
                  (Len(g) >= 1 /\ g[1].result = "cuda_oom") =>
                      /\ Len(g) = 2
                      /\ g[2].result # "None" =>
                            /\ speech[r].response.status = 500
                            /\ ~speech[r].response.has_audio
                            /\ \A j \in (i + 1)..Len(speech[r].chunks) : GenCalls(r, j) = <<>>

\* C4 witness: the second chunk of three failed twice on a device error, the
\* request ended with the error and the third chunk was never synthesized
C4_Witness ==
    \E r \in Reqs :
        /\ Ended(r) /\ RETRY_ON_CUDA_ERROR # 0
        /\ Len(speech[r].chunks) = 3
        /\ Len(GenCalls(r, 2)) = 2
        /\ GenCalls(r, 2)[1].result = "cuda_oom" /\ GenCalls(r, 2)[2].result = "cuda_oom"
        /\ GenCalls(r, 3) = <<>>
        /\ speech[r].response.status = 500

\* C5: a generate call that raises an exception not classified as a device
\* error is the last backend operation of the request (no recovery, no retry,
\* no later chunk), the request ends with an error without audio, and when it
\* was the first call for its chunk the chunk has exactly one generate call
C5_NoRetryUnclassified ==
    \A r \in Reqs :
        \A i \in 1..Len(speech[r].chunks) :
            \A k \in GenPositions(r, i) :
                speech[r].log[k].result = "backend_error" =>
                    /\ k = Len(speech[r].log)
                    /\ speech[r].pc \in {"except", "exit"}
                    /\ Ended(r) =>
                          speech[r].response.status = 500 /\ ~speech[r].response.has_audio
                    /\ GenCalls(r, i)[1].result = "backend_error" => Len(GenCalls(r, i)) = 1

\* C5 witness: the first call for the second chunk raised an unclassified
\* error with the retry knob on, and the request ended
C5_Witness ==
    \E r \in Reqs :
        /\ Ended(r) /\ RETRY_ON_CUDA_ERROR # 0
        /\ Len(speech[r].chunks) >= 2
        /\ Len(GenCalls(r, 2)) = 1
        /\ GenCalls(r, 2)[1].result = "backend_error"
        /\ speech[r].response.status = 500

\* C6: a response is either audio that holds one segment for every chunk of
\* the request, in chunk order, or an error without any audio
C6_AllOrNothing ==
    \A r \in Reqs :
        Ended(r) =>
            \/ /\ speech[r].response.status = 200
               /\ speech[r].response.has_audio
               /\ speech[r].chunks # <<>>
               /\ ChunkIdxs(speech[r].response.audio) = [i \in 1..Len(speech[r].chunks) |-> i]
            \/ /\ speech[r].response.status \in {400, 500}
               /\ ~speech[r].response.has_audio
               /\ speech[r].response.audio = <<>>

\* C6 witness: a request ended with an error after the audio of two chunks
\* had been synthesized
C6_Witness ==
    \E r \in Reqs :
        /\ Ended(r)
        /\ speech[r].response.status = 500
        /\ Len(ChunkIdxs(speech[r].wav_parts)) >= 2

\* r is inside the "with lock" block
InPipeline(r) == speech[r].pc \notin {"idle", "lock"}

\* C7: at most one request is inside the pipeline of speech() at any time
C7_OneInPipeline ==
    Cardinality({r \in Reqs : InPipeline(r)}) <= 1

\* C7 witness: one request is synthesizing a chunk while another waits at the gate
C7_Witness ==
    \E r1, r2 \in Reqs :
        /\ r1 # r2
        /\ speech[r1].pc \in {"gen", "retry", "encode"}
        /\ speech[r2].pc = "lock"

\* the backend operations a request has performed: model load and generate calls
BackendOps(r) == SelectSeq(speech[r].log, LAMBDA e : e.op \in {"load", "generate"})

\* the text of r is blank after normalization
BlankAfterSanitize(r) == _sanitize_text(strip(speech[r].input)) = <<>>

\* C12: a request whose text is blank after _sanitize_text performs no backend
\* operation, neither the first-use model load nor a generate call, and is
\* answered with the 400 rejection
C12_BlankRejectedBeforeBackend ==
    \A r \in Reqs :
        (speech[r].pc \notin {"idle", "lock", "check"} /\ BlankAfterSanitize(r)) =>
            /\ BackendOps(r) = <<>>
            /\ Ended(r) => speech[r].response.status = 400

\* the module state of the qwen3 server: model handles, load errors, design
\* capability state, last error, recorded signature, and the probe calls made
QwenModuleState ==
    <<qmodel, LOAD_ERROR, DESIGN_SUPPORTED, DESIGN_DISABLED_REASON, LAST_ERR,
      _VOICE_DESIGN_GEN_SIG, probe_invocations>>

\* C13: an empty or whitespace-only input gets the empty-input failure (400)
\* without backend contact and without a change of module state, in
\* chatterbox speech() (no load, no generate, no encode, no recovery; _model
\* unchanged) and in qwen3 speak() (no load, no probe, no generate; handles,
\* capability state and last error unchanged; INFER_LOCK not even taken)
C13_EmptyInputNoBackend ==
    /\ [](\A r \in Reqs :
            (speech[r].pc \notin {"idle", "lock", "check"} /\ strip(speech[r].input) = <<>>) =>
                /\ Ended(r)
                /\ speech[r].response = JSONResponse(400)
                /\ speech[r].log = <<>>)
    /\ [][\A r \in Reqs :
            (speech'[r] # speech[r] /\ speech'[r].pc = "exit" /\ strip(speech'[r].input) = <<>>)
            => UNCHANGED _model]_vars
    /\ [](\A t \in QThreads :
            qthread[t].req = "empty" =>
                /\ qthread[t].pc = "q_exit"
                /\ qthread[t].status = 400 /\ qthread[t].wav = "None"
                /\ qthread[t].loading = "None" /\ INFER_LOCK # t)
    /\ [][\A t \in QThreads :
            (qthread'[t] # qthread[t] /\ (qthread[t].req = "empty" \/ qthread'[t].req = "empty"))
            => UNCHANGED <<QwenModuleState, INFER_LOCK>>]_vars

\* C13 witness: a whitespace-only input was rejected by speech() while the
\* model was already loaded by an earlier request
C13_Witness ==
    \E r \in Reqs :
        /\ Ended(r)
        /\ speech[r].input = <<" ">>
        /\ speech[r].response.status = 400
        /\ _model = "loaded"

\* the lengths of the audio segments of a waveform, in order
RECURSIVE SegLens(_)
SegLens(parts) ==
    IF parts = <<>> THEN <<>>
    ELSE IF Head(parts).kind = "chunk" THEN <<Head(parts).len>> \o SegLens(Tail(parts))
    ELSE SegLens(Tail(parts))

RECURSIVE Sum(_)
Sum(ns) == IF ns = <<>> THEN 0 ELSE Head(ns) + Sum(Tail(ns))

\* C16: the waveform of a successful request with k chunks, segments of
\* lengths n1..nk and a gap of g samples has n1 + ... + nk + (k - 1) * g samples
C16_AssembledLength ==
    \A r \in Reqs :
        (Ended(r) /\ speech[r].response.status = 200) =>
            LET ns == SegLens(speech[r].response.audio)
                k == Len(speech[r].chunks)
            IN  /\ k >= 1
                /\ Len(ns) = k
                /\ Len(np_concatenate(speech[r].response.audio)) = Sum(ns) + (k - 1) * gap

\* C16 witness: three chunks with segments of different lengths and a gap
C16_Witness ==
    \E r \in Reqs :
        /\ Ended(r) /\ speech[r].response.status = 200
        /\ gap > 0
        /\ Len(speech[r].chunks) = 3
        /\ SegLens(speech[r].response.audio)[1] # SegLens(speech[r].response.audio)[3]

RECURSIVE Layout(_, _, _)
\* the samples of segments of lengths ns[i..], numbered from i, with g samples
\* of silence between two consecutive segments
Layout(ns, i, g) ==
    IF i > Len(ns) THEN <<>>
    ELSE [k \in 1..ns[i] |-> i]
         \o (IF i < Len(ns) THEN [k \in 1..g |-> 0] ELSE <<>>)
         \o Layout(ns, i + 1, g)

\* C17: the waveform of a successful request is the segment of chunk 1, the
\* silence, the segment of chunk 2, ..., the segment of the last chunk: one
\* segment per chunk in chunk order, silence between two segments only, also
\* when a chunk needed a retry
C17_SegmentLayout ==
    \A r \in Reqs :
        (Ended(r) /\ speech[r].response.status = 200) =>
            /\ Len(SegLens(speech[r].response.audio)) = Len(speech[r].chunks)
            /\ np_concatenate(speech[r].response.audio)
                  = Layout(SegLens(speech[r].response.audio), 1, gap)

\* C17 witness: a successful request of three chunks whose second chunk needed a retry
C17_Witness ==
    \E r \in Reqs :
        /\ Ended(r) /\ speech[r].response.status = 200
        /\ gap > 0
        /\ Len(speech[r].chunks) = 3
        /\ Len(GenCalls(r, 2)) = 2

\* the positions in the log of r of the first generate call of a chunk that
\* raised a device error while the retry was enabled
FirstDeviceFailures(r) ==
    {k \in DOMAIN speech[r].log :
        /\ RETRY_ON_CUDA_ERROR # 0
        /\ speech[r].log[k].op = "generate"
        /\ speech[r].log[k].result = "cuda_oom"
        /\ \A j \in 1..(k - 1) :
              ~(speech[r].log[j].op = "generate" /\ speech[r].log[j].chunk = speech[r].log[k].chunk)}

\* C29: after the first generate call of a chunk failed on a device error,
\* the next operation of the request is one call of _cuda_recover() and the
\* one after it is the retry, a generate call for the same chunk of the
\* unchanged chunk list of the request: exactly one reset lies between the
\* failed call and its retry
C29_OneRecoverThenSameChunk ==
    \A r \in Reqs :
        LET log == speech[r].log IN
        \A k \in FirstDeviceFailures(r) :
            /\ k = Len(log) => speech[r].pc = "recover" /\ speech[r].i = log[k].chunk
            /\ k + 1 <= Len(log) =>
                  /\ log[k + 1].op = "recover"
                  /\ log[k + 1].chunk = log[k].chunk
            /\ k + 1 = Len(log) => speech[r].pc = "retry" /\ speech[r].i = log[k].chunk
            /\ k + 2 <= Len(log) =>
                  /\ log[k + 2].op = "generate"
                  /\ log[k + 2].chunk = log[k].chunk
                  /\ log[k].chunk \in DOMAIN speech[r].chunks

\* C29 witness: the second chunk failed on a device error, the device state
\* was reset and the retry of the second chunk returned audio
C29_Witness ==
    \E r \in Reqs :
        \E k \in FirstDeviceFailures(r) :
            /\ k + 2 <= Len(speech[r].log)
            /\ speech[r].log[k].chunk = 2
            /\ speech[r].log[k + 1] = Event("recover", 2, "flushed")
            /\ speech[r].log[k + 2] = Event("generate", 2, "None")

\* the results of the calls of encoder op that request r has made, in order
EncodeResults(r, op) ==
    LET calls == SelectSeq(speech[r].log, LAMBDA e : e.op = op)
    IN [k \in 1..Len(calls) |-> calls[k].result]

\* C27: in a request that has ended, the fallback encoder was called if and
\* only if the primary encoder raised; when the primary succeeded the response
\* is its output, when it raised and the fallback succeeded the response is
\* the fallback's output, and when both raised the response is an error
\* without audio
C27_EncoderFallback ==
    \A r \in Reqs :
        Ended(r) =>
            LET wave == EncodeResults(r, "encode_wave")
                soundfile == EncodeResults(r, "encode_soundfile")
                resp == speech[r].response
            IN /\ Len(wave) <= 1 /\ Len(soundfile) <= 1
               /\ Len(soundfile) = 1 <=> (Len(wave) = 1 /\ wave[1] # "None")
               /\ (Len(wave) = 1 /\ wave[1] = "None")
                     => resp.status = 200 /\ resp.has_audio /\ resp.encoder = "wave"
               /\ (Len(soundfile) = 1 /\ soundfile[1] = "None")
                     => resp.status = 200 /\ resp.has_audio /\ resp.encoder = "soundfile"
               /\ (Len(soundfile) = 1 /\ soundfile[1] # "None")
                     => resp.status = 500 /\ ~resp.has_audio /\ resp.audio = <<>>
               /\ resp.has_audio => resp.audio = speech[r].wav_parts

\* C27 witness: the primary encoder raised and the response carries the
\* output of the fallback
C27_Witness ==
    \E r \in Reqs :
        /\ Ended(r)
        /\ EncodeResults(r, "encode_wave") = <<"encode_error">>
        /\ EncodeResults(r, "encode_soundfile") = <<"None">>
        /\ speech[r].response.encoder = "soundfile"

(***************************************************************************)
(* Properties of the design capability of the qwen3 server                 *)
(***************************************************************************)
\* C8: once DESIGN_SUPPORTED is False no step of the server makes it True
C8_FalseStaysFalse ==
    [][DESIGN_SUPPORTED = "False" => DESIGN_SUPPORTED' # "True"]_vars

\* C9: DESIGN_SUPPORTED changes only while it is unknown: a state that is True
\* or False is never changed again, by the probe or by a request handler
C9_SetOnce ==
    [][DESIGN_SUPPORTED # "None" => DESIGN_SUPPORTED' = DESIGN_SUPPORTED]_vars

\* C10: the probe calls generate_voice_design on the design model at most once
C10_ProbeAtMostOnce ==
    probe_invocations <= 1

\* the results of a probe that count as the signal "unsupported": the dispatch
\* returned None, or the call raised "does not support generate_voice_design"
UnsupportedSignals == {"none", "unsupported"}

\* C11: once the first probe has received an "unsupported" signal, the status
\* queries report design_supported = false with a reason, and every /speak
\* request for a custom voice with a description that comes to the capability
\* check goes straight to the fallback TTS model, without probe or design call
C11_UnsupportedIsFinal ==
    /\ [](probe_signal \in UnsupportedSignals =>
            /\ capabilities.design_supported = "False"
            /\ capabilities.design_disabled_reason # "None"
            /\ health.design_supported = "False"
            /\ health.design_disabled_reason # "None")
    /\ [][\A t \in QThreads :
            (/\ probe_signal \in UnsupportedSignals
             /\ qthread[t].kind = "speak" /\ qthread[t].req = "custom_desc"
             /\ qthread[t].pc = "probe_check" /\ qthread'[t].pc # "probe_check")
            => qthread'[t].pc = "s_tts_load"]_vars

\* the positions of a thread inside probe_design_support() after its first test
ProbePcs == {"probe_load", "probe_call", "vd_init", "vd_sig", "vd_read", "probe_none", "probe_calling"}

\* C25: a probe that does not end with a successful test call ends with
\* DESIGN_SUPPORTED = False and a recorded reason and returns False to its
\* caller without an exception (/warmup answers 200, /speak goes on to the
\* fallback model); and once the first probe has ended that way, no test call
\* is made on the design model any more
C25_ProbeFailureIsFinal ==
    /\ [][\A t \in QThreads :
            (/\ qthread[t].pc \in ProbePcs
             /\ qthread'[t].pc \notin ProbePcs
             /\ DESIGN_SUPPORTED' # "True")
            => /\ DESIGN_SUPPORTED' = "False"
               /\ DESIGN_DISABLED_REASON' # "None"
               /\ IF qthread[t].kind = "warmup"
                  THEN qthread'[t].pc = "q_exit" /\ qthread'[t].status = 200
                  ELSE qthread'[t].pc = "s_tts_load"]_vars
    /\ [][probe_signal \notin {"None", "ok"} => probe_invocations' = probe_invocations]_vars

\* C28: the design call of a /speak request (the call after the capability
\* check, not the test call of the probe) starts only for a request without
\* reference audio, for voice "custom", with a description, and only while
\* DESIGN_SUPPORTED is True
C28_DesignOnlyWhenSupported ==
    [][\A t \in QThreads :
         (qthread[t].pc # "s_design_calling" /\ qthread'[t].pc = "s_design_calling")
         => /\ qthread[t].kind = "speak"
            /\ qthread[t].req = "custom_desc"
            /\ DESIGN_SUPPORTED = "True"]_vars

\* the threads that are inside a backend inference call: the test call of
\* the probe, generate_voice_clone, generate_voice_design, or
\* generate_custom_voice / generate of the TTS model
Inferring ==
    {t \in QThreads :
        qthread[t].pc \in {"probe_calling", "s_clone_calling", "s_design_calling", "s_tts_calling"}}

\* C30: at most one backend inference call of the Qwen3 server runs at any time
C30_OneInference ==
    Cardinality(Inferring) <= 1

\* the threads that are inside _load for role
LoadingRole(role) == {t \in QThreads : qthread[t].loading = role}

\* C31: for each role at most one thread is inside the loader at a time, and
\* the loader returns a model for a role only while the role has no model yet
\* (at most one successful load per role)
C31_OneLoadPerRole ==
    /\ [](\A role \in Roles : Cardinality(LoadingRole(role)) <= 1)
    /\ [][\A t \in QThreads :
            (/\ qthread[t].loading # "None"
             /\ qthread'[t].loading = "None"
             /\ qthread'[t].pc = AfterLoad(qthread[t].pc))
            => qmodel[qthread[t].loading] = "None"]_vars

\* the places of a /speak request from the fallback to the answer
FallbackPcs == {"s_tts_load", "s_tts_calling", "s_except", "q_exit"}

\* C35 as stated: a /speak request whose design call gave no result or raised
\* the "does not support generate_voice_design" error is answered with audio
\* from the fallback TTS model
C35_FallbackAlwaysAudio ==
    \A t \in QThreads :
        (qthread[t].design_result = "gave_up" /\ qthread[t].pc = "q_exit")
        => (qthread[t].status = 200 /\ qthread[t].wav = "tts")

\* C35: a /speak request whose design call gave no result or raised the "does
\* not support generate_voice_design" error goes on to the fallback TTS model
\* and is answered with its audio, or with 500 when the fallback load or call
\* raises; a request whose design call raised another exception is answered
\* 500 without a fallback call; and no request starts a design call after it
\* has made one
C35_FallbackAfterDesign ==
    /\ [](\A t \in QThreads :
            qthread[t].design_result = "gave_up" =>
               /\ qthread[t].pc \in FallbackPcs
               /\ qthread[t].pc = "q_exit" =>
                     \/ qthread[t].status = 200 /\ qthread[t].wav = "tts"
                     \/ qthread[t].status = 500 /\ qthread[t].wav = "None")
    /\ [](\A t \in QThreads :
            qthread[t].design_result = "raised" =>
               /\ qthread[t].pc \in {"s_except", "q_exit"}
               /\ qthread[t].wav = "None"
               /\ qthread[t].pc = "q_exit" => qthread[t].status = 500)
    /\ [][\A t \in QThreads :
            /\ (qthread[t].pc # "s_design_calling" /\ qthread'[t].pc = "s_design_calling")
                  => (qthread[t].design_result = "None" /\ qthread[t].wav = "None")
            /\ (qthread[t].design_result = "gave_up" /\ qthread[t].pc = "s_tts_load"
                 /\ qthread'[t].pc # "s_tts_load")
                  => qthread'[t].pc \in {"s_tts_calling", "s_except"}]_vars

\* a request whose design call gave no result is answered with the audio of
\* the TTS model
C35_Witness ==
    \E t \in QThreads :
        /\ qthread[t].design_result = "gave_up"
        /\ qthread[t].pc = "q_exit"
        /\ qthread[t].status = 200
        /\ qthread[t].wav = "tts"
        /\ DESIGN_SUPPORTED = "False"

\* C36: the design capability state and its reason are consistent in every
\* state a status query can observe: DESIGN_DISABLED_REASON is set exactly
\* when DESIGN_SUPPORTED is False, so /capabilities never reports supported
\* = true with a disabled reason
C36_DesignStateConsistent ==
    /\ (DESIGN_DISABLED_REASON # "None") <=> (DESIGN_SUPPORTED = "False")
    /\ (capabilities.design_supported = "True") => (capabilities.design_disabled_reason = "None")

\* C26: the creator of prompt objects is invoked at most once per stripped
\* description: no call of the creator starts for a description that already
\* has its prompt object in VOICE_DESIGN_CACHE
C26_CreatorOncePerDescription ==
    [][\A t \in QThreads :
         (/\ qthread[t].pc \in {"pr_create", "ds_create"}
          /\ qthread'[t].pc \in {"pr_creating", "ds_creating"})
         => Key(qthread[t]) \notin VOICE_DESIGN_CACHE]_vars

(***************************************************************************)
(* Properties of the XTTS Flask server                                     *)
(***************************************************************************)
\* the threads that are inside the loading section of load_model_if_needed()
Loaders == {t \in XThreads : xthread[t].pc = "loading"}

\* C20: whatever the interleaving of /health requests, /speak requests and
\* the eager-load thread, at most one thread is inside the loading section of
\* load_model_if_needed() at a time, and the model is loaded successfully at
\* most once
C20_SingleLoader ==
    /\ Cardinality(Loaders) <= 1
    /\ load_count <= 1

\* one thread is loading while another was turned away because LOADING was set
C20_Witness ==
    \E t1, t2 \in XThreads :
        /\ t1 # t2
        /\ xthread[t1].pc = "loading"
        /\ xthread[t2].ok = "False"
        /\ xthread[t2].pc \in {"ensure_read", "health_read"}
        /\ LOADING

\* C21: a /speak request that load_model_if_needed() turned away because
\* another thread's load was in progress starts no load of its own and is
\* answered 503 with loading = true; the only other answer allowed here is the
\* 500 that carries the error of that load when it has failed in the meantime
C21_NotReadyWhileLoading ==
    [][\A t \in XReqThreads :
         (/\ xthread[t].kind = "speak"
          /\ xthread[t].via = "loading"
          /\ xthread[t].pc = "ensure_read"
          /\ xthread'[t].pc # "ensure_read")
         => /\ xthread'[t].pc = "done"
            /\ \/ xthread'[t].resp.status = 503 /\ xthread'[t].resp.loading
               \/ xthread'[t].resp.status = 500 /\ xthread'[t].resp.error = "error"]_vars

\* C22: requests blocked on the gate of speech() enter in their arrival order:
\* a request acquires the gate only when no request that was blocked on the
\* gate before it arrived is still waiting
C22_GateIsFifo ==
    [][\A r \in Reqs :
         (speech[r].pc = "lock" /\ speech'[r].pc = "check")
         => \A q \in speech[r].ahead : speech[q].pc # "lock"]_vars

\* the roles of the Qwen3 server whose load has failed
FailedRoles == {role \in DOMAIN LOAD_ERROR : LOAD_ERROR[role] # "None"}

\* C23: once the load of a role has failed, the handle of that role stays
\* unset, and every call of its load function made afterwards raises without
\* entering the model loader
C23_LoadFailureIsFinal ==
    /\ [](\A role \in FailedRoles : qmodel[role] = "None")
    /\ [][\A t \in QThreads :
            (/\ qthread[t].pc \in LoadSites
             /\ qthread[t].loading = "None"
             /\ LoadRole(qthread[t].pc) \in FailedRoles
             /\ qthread'[t] # qthread[t])
            => /\ qthread'[t].loading = "None"
               /\ qthread'[t].pc # AfterLoad(qthread[t].pc)]_vars

\* C24: a request that fails in synthesis does not poison the service: the
\* gate is held exactly by the request inside the pipeline, every return of
\* speech() (200, 400 or 500) leaves the gate free, and a loaded model handle
\* is never changed, a failed request included
C24_FailureDoesNotPoison ==
    /\ [](\A r \in Reqs : InPipeline(r) <=> _req_lock = r)
    /\ [][\A r \in Reqs :
            (speech[r].pc = "exit" /\ speech'[r].pc # "exit")
            => /\ speech[r].response.status \in {200, 400, 500}
               /\ _req_lock' = 0
               /\ _model' = _model
               /\ SynthesisFailed(speech[r]) => _model = "loaded"]_vars
    /\ [][_model # "None" => _model' = _model]_vars

\* the request that entered right after a request failed in synthesis got its audio
C24_Witness ==
    \E r \in Reqs :
        /\ speech[r].after_failure
        /\ speech[r].pc = "exit"
        /\ speech[r].response.status = 200
        /\ _req_lock = r

\* the request has left the except clause of speech() with a device error
EndedInDeviceFailure(r) ==
    /\ speech[r].pc = "exit"
    /\ speech[r].response.status = 500
    /\ speech[r].exc = "cuda_oom"

\* C34: on a CUDA device, a request that ended in a device-related failure has
\* called _cuda_recover() as its last operation and still holds the gate, and
\* from the failure to the release no other request is past the gate, so no
\* backend call of another request lies between the failure and the recovery
C34_RecoverBeforeRelease ==
    \A r \in Reqs :
        /\ (DEVICE = "cuda" /\ EndedInDeviceFailure(r)) =>
              /\ Len(speech[r].log) >= 2
              /\ speech[r].log[Len(speech[r].log)] = [op |-> "recover", chunk |-> 0, result |-> "flushed"]
              /\ speech[r].log[Len(speech[r].log) - 1].result = "cuda_oom"
        /\ (speech[r].pc \in {"except", "exit"}) =>
              /\ _req_lock = r
              /\ \A q \in Reqs \ {r} : speech[q].pc \in {"idle", "lock"}

\* the retry of chunk 2 failed on the device as well, the request has
\* recovered once more and holds the gate another request is waiting for
C34_Witness ==
    \E r \in Reqs :
        LET log == speech[r].log
            n == Len(log) IN
        /\ DEVICE = "cuda"
        /\ EndedInDeviceFailure(r)
        /\ _req_lock = r
        /\ n >= 4
        /\ log[n - 3] = [op |-> "generate", chunk |-> 2, result |-> "cuda_oom"]
        /\ log[n - 2] = [op |-> "recover", chunk |-> 2, result |-> "flushed"]
        /\ log[n - 1] = [op |-> "generate", chunk |-> 2, result |-> "cuda_oom"]
        /\ log[n] = [op |-> "recover", chunk |-> 0, result |-> "flushed"]
        /\ \E q \in Reqs \ {r} : speech[q].pc = "lock"

\* the /speak threads that are between the read of MODEL and the return of
\* m.synthesize(...)
Synthesizing == {t \in XReqThreads : xthread[t].pc = "synthesize"}

\* C32: at most one /speak request at a time executes the synthesize call on
\* the shared model
C32_OneSynthesis ==
    Cardinality(Synthesizing) <= 1

\* C33: once a load has failed, the recorded error stays, no thread starts
\* another load, and a /speak or /health request that is answered while the
\* model is unset reports the recorded error
C33_LoadFailureNotRetried ==
    [][XTTS_LOAD_ERROR # "None" =>
         /\ XTTS_LOAD_ERROR' = XTTS_LOAD_ERROR
         /\ \A t \in XThreads :
               /\ xthread'[t].pc = "loading" => xthread[t].pc = "loading"
               /\ (xthread[t].pc \in {"ensure_read", "health_read"} /\ xthread'[t].pc = "done")
                     => xthread'[t].resp.error = XTTS_LOAD_ERROR]_vars

\* C37: whenever MODEL is set, LOADING is False and LOAD_ERROR is None; MODEL,
\* once set, is never changed or cleared; and a /speak request that calls
\* synthesize holds a model that is set
C37_ModelStateConsistent ==
    /\ [](MODEL # "None" => (~LOADING /\ XTTS_LOAD_ERROR = "None"))
    /\ [](\A t \in XReqThreads : xthread[t].pc = "synthesize" => xthread[t].m # "None")
    /\ [][MODEL # "None" => MODEL' = MODEL]_vars

\* a /speak request is about to call synthesize on the loaded model
C37_Witness ==
    /\ MODEL = "loaded"
    /\ load_count = 1
    /\ \E t \in XReqThreads : xthread[t].pc = "synthesize" /\ xthread[t].m = "loaded"

(***************************************************************************)
(* Properties of the streaming CLI                                         *)
(***************************************************************************)
\* the length a four-byte little-endian header stands for
unpack_I(b) == b[1] + 256 * b[2] + 65536 * b[3] + 16777216 * b[4]

RECURSIVE ParseFrames(_)
\* the payloads of the length-prefixed frames in bytes, in order; <<-1>>
\* stands for a header or payload that is cut short
ParseFrames(bytes) ==
    IF bytes = <<>> THEN <<>>
    ELSE IF Len(bytes) < 4 THEN << <<-1>> >>
    ELSE LET n == unpack_I(SubSeq(bytes, 1, 4)) IN
         IF Len(bytes) < 4 + n THEN << <<-1>> >>
         ELSE << SubSeq(bytes, 5, 4 + n) >> \o ParseFrames(SubSeq(bytes, 5 + n, Len(bytes)))

\* the non-empty chunks among the yields the loop has taken, in order
WrittenChunks == SelectSeq(SubSeq(stream_tts.yields, 1, consumed), LAMBDA pcm : pcm # <<>>)

\* while the loop runs, and once the generator is exhausted, stdout holds
\* whole frames: the non-empty chunks in the order of the yields, then one
\* zero-length frame, the last one, when main() returned after exhaustion
FramesInOrder ==
    /\ cli_pc = "loop" => ParseFrames(stdout) = WrittenChunks
    /\ (cli_pc = "exited" /\ importable /\ stream_tts.ending = "StopIteration") =>
          /\ ParseFrames(stdout) = Append(WrittenChunks, <<>>)
          /\ consumed = Len(stream_tts.yields)
          /\ exit_code = 0

====
